---------------------------- MODULE Spec2Model ----------------------------
(***************************************************************************)
(* Model of the Bond dashboard's data pipeline: the CSV loader/cleaner     *)
(* (dashboard/data_loader.py and its older copy in bond_dashboard.py),     *)
(* the sidebar filter (dashboard/components.py, bond_dashboard.py) and the *)
(* per-actor aggregation, the target-film filter and the chart             *)
(* aggregations (dashboard/charts.py), and the pages that call them        *)
(* (dashboard/pages).                                                      *)
(*                                                                         *)
(* Representation.  A numeric cell of the parsed CSV is a record           *)
(* [k, v]: k = "num" is a finite number of value v, k = "nan" a missing   *)
(* value (NaN), k = "inf" / "ninf" the two infinities.  releaseYear cells  *)
(* of the file carry v in tenths of a year (19995 is 1999.5), so that the  *)
(* integer conversion of the loader is a real truncation; every other      *)
(* numeric column carries whole units.  A text cell is [k, s]: k = "str"   *)
(* with s the tuple of its characters, or k = "nan" for a missing value.   *)
(* leadActor is a string, "NaN" standing for the missing value (read_csv   *)
(* parses that text as missing).  A table is the sequence of its rows,     *)
(* each carrying its pandas index label idx.  A genre flag is a numeric    *)
(* cell holding 0 or 1.  A column that the file does not have is read as   *)
(* cells of kind "absent".                                                 *)
(***************************************************************************)
EXTENDS Integers, Sequences, FiniteSets, TLC

VARIABLES
    app,              \* which program runs: "modular" (pages + data_loader) or "monolith" (bond_dashboard.py)
    csv,              \* the rows of the input file, as read_csv parses them
    csv_exists,       \* whether the input file is there
    csv_columns,      \* the column names of the file's header
    load_status,      \* "none" before loading; "ok"; "error" (the loader raised);
                      \* "startup_error" (the monolith's script raised after loading)
    df_full,          \* the cleaned table held for the process lifetime
    data_focus,       \* the sidebar's radio selection: "core" or "general"
    df_current,       \* the focus subset of df_full
    actor_list_options, \* the actors offered as checkboxes, sorted
    selected_actors,  \* the checked actors, in checkbox order
    selected_years,   \* the slider's <<lo, hi>>
    df_filtered,      \* the filtered view: [kind |-> "None" | "table", rows]
    actor_ratings,    \* the table of the per-actor aggregation
    chart_name,       \* the chart or page computed last, "none" before
    chart_data,       \* its tables: [bond, other, agg], each a sequence of rows
    chart_status,     \* "none", "ok", "None" (no chart returned) or "error"
    kpis,             \* the values of the KPI cards, NoKpis before they are shown
    card_config,      \* the chart configurations handed to the card renderers
    card,             \* what the card renderers put on the page: [status, elements]
    page_status,      \* "none", "rendered", "placeholder" (message shown, no
                      \* chart), "empty" (no message, no chart) or "error"
                      \* (the render raised)
    pc                \* position of the script run: "start", "sidebar", "page",
                      \* "done", or "failed" (an exception ended it)

vars == <<app, csv, csv_exists, csv_columns, load_status, df_full, data_focus,
          df_current, actor_list_options, selected_actors, selected_years,
          df_filtered, actor_ratings, chart_name, chart_data, chart_status,
          kpis, card_config, card, page_status, pc>>

--------------------------------------------------------------------------
(* Bounds of the model *)

MaxRows == 2

MaxViewRows == 5

MaxFilmRows == 3

MaxSchemaRows == 1
MaxUniverseRows == 16
MaxActorFilms == 6

--------------------------------------------------------------------------
(* Cells *)

Num(n) == [k |-> "num", v |-> n]

NaN == [k |-> "nan", v |-> 0]

PosInf == [k |-> "inf", v |-> 0]

NegInf == [k |-> "ninf", v |-> 0]

Str(chars) == [k |-> "str", s |-> chars]

NaText == [k |-> "nan", s |-> <<>>]

NaActor == "NaN"

\* x > n for a float cell x and a finite n (NaN compares False)
Gt(x, n) == x.k = "inf" \/ (x.k = "num" /\ x.v > n)

\* x >= n for a float cell x and a finite n (NaN compares False)
Ge(x, n) == x.k = "inf" \/ (x.k = "num" /\ x.v >= n)

NotNa(x) == x.k # "nan"

--------------------------------------------------------------------------
(* Text *)

UpperCase == <<"A","B","C","D","E","F","G","H","I","J","K","L","M",
               "N","O","P","Q","R","S","T","U","V","W","X","Y","Z">>

LowerCase == <<"a","b","c","d","e","f","g","h","i","j","k","l","m",
               "n","o","p","q","r","s","t","u","v","w","x","y","z">>

LowerChar(c) ==
    IF \E i \in 1..Len(UpperCase) : UpperCase[i] = c
    THEN LowerCase[CHOOSE i \in 1..Len(UpperCase) : UpperCase[i] = c]
    ELSE c

Lower(s) == [i \in 1..Len(s) |-> LowerChar(s[i])]

\* pat occurs in s as a contiguous substring
Contains(s, pat) ==
    \E i \in 1..(Len(s) - Len(pat) + 1) : SubSeq(s, i, i + Len(pat) - 1) = pat

\* the same search with case=True
StrContainsBond_CaseSensitive(cell) ==
    /\ cell.k = "str"
    /\ \/ Contains(cell.s, <<"B","o","n","d">>)
       \/ Contains(cell.s, <<"0","0","7">>)

\* Series.str.contains('Bond|007', case=False, na=False) on one cell: a
\* missing title gives False
StrContainsBond(cell) ==
    /\ cell.k = "str"
    /\ \/ Contains(Lower(cell.s), Lower(<<"B","o","n","d">>))
       \/ Contains(Lower(cell.s), Lower(<<"0","0","7">>))

--------------------------------------------------------------------------
(* Configuration *)

EON_BOND_ACTORS ==
    {"Sean Connery", "George Lazenby", "Roger Moore",
     "Timothy Dalton", "Pierce Brosnan", "Daniel Craig"}

VoteFloor == 500

Range(q) == {q[i] : i \in 1..Len(q)}

\* genre_cols of the genre charts
genre_cols ==
    <<"Action", "Adventure", "Thriller", "Romance", "Sci-Fi", "Comedy", "Drama">>

\* target_films of charts.py: year, title keywords, actor
target_films ==
    <<[year |-> 1981, actor |-> "Roger Moore",
       title_keywords |->
         <<"f","o","r"," ","y","o","u","r"," ","e","y","e","s"," ","o","n","l","y">>],
      [year |-> 1983, actor |-> "Roger Moore",
       title_keywords |->
         <<"o","c","t","o","p","u","s","s","y">>],
      [year |-> 1985, actor |-> "Roger Moore",
       title_keywords |->
         <<"v","i","e","w"," ","t","o"," ","a"," ","k","i","l","l">>],
      [year |-> 1987, actor |-> "Timothy Dalton",
       title_keywords |->
         <<"l","i","v","i","n","g"," ","d","a","y","l","i","g","h","t","s">>],
      [year |-> 1989, actor |-> "Timothy Dalton",
       title_keywords |->
         <<"l","i","c","e","n","c","e"," ","t","o"," ","k","i","l","l">>],
      [year |-> 1995, actor |-> "Pierce Brosnan",
       title_keywords |->
         <<"g","o","l","d","e","n","e","y","e">>],
      [year |-> 1997, actor |-> "Pierce Brosnan",
       title_keywords |->
         <<"t","o","m","o","r","r","o","w"," ","n","e","v","e","r"," ","d","i","e","s">>],
      [year |-> 1999, actor |-> "Pierce Brosnan",
       title_keywords |->
         <<"w","o","r","l","d"," ","i","s"," ","n","o","t"," ","e","n","o","u","g","h">>],
      [year |-> 2002, actor |-> "Pierce Brosnan",
       title_keywords |->
         <<"d","i","e"," ","a","n","o","t","h","e","r"," ","d","a","y">>],
      [year |-> 2006, actor |-> "Daniel Craig",
       title_keywords |->
         <<"c","a","s","i","n","o"," ","r","o","y","a","l","e">>],
      [year |-> 2008, actor |-> "Daniel Craig",
       title_keywords |->
         <<"q","u","a","n","t","u","m"," ","o","f"," ","s","o","l","a","c","e">>],
      [year |-> 2012, actor |-> "Daniel Craig",
       title_keywords |->
         <<"s","k","y","f","a","l","l">>],
      [year |-> 2015, actor |-> "Daniel Craig",
       title_keywords |->
         <<"s","p","e","c","t","r","e">>],
      [year |-> 2021, actor |-> "Daniel Craig",
       title_keywords |->
         <<"n","o"," ","t","i","m","e"," ","t","o"," ","d","i","e">>]>>

--------------------------------------------------------------------------
(* Loader: dashboard/data_loader.py *)

NumericCols == <<"averageRating", "numVotes", "runtimeMinutes">>

\* the columns the loader names
Columns ==
    {"leadActor", "releaseYear", "averageRating", "numVotes",
     "runtimeMinutes", "primaryTitle", "originalTitle"}

TextCols == {"primaryTitle", "originalTitle"}

\* the cell of a column that the file does not have
AbsentCell(col) ==
    IF col = "leadActor" THEN "<absent>"
    ELSE IF col \in TextCols THEN [k |-> "absent", s |-> <<>>]
    ELSE [k |-> "absent", v |-> 0]

\* a file of the full schema
FullFile(rows) == [exists |-> TRUE, columns |-> Columns, rows |-> rows]

\* pd.read_csv: the parsed rows with their RangeIndex labels 0, 1, ...,
\* holding the columns of the header only
ReadCsv(file) ==
    [i \in 1..Len(file.rows) |->
        ("idx" :> (i - 1)) @@
        [col \in Columns \ file.columns |-> AbsentCell(col)] @@
        file.rows[i]]

\* read_csv gives a column without any text the dtype float64 (object when
\* the file has no rows), and Series.str raises on a float64 column
CanStrAccessor(file, col) ==
    \/ file.rows = <<>>
    \/ \E i \in 1..Len(file.rows) : file.rows[i][col].k = "str"

\* dropna on the wrong column: subset=['primaryTitle']
DropNa_WrongColumn(t) == SelectSeq(t, LAMBDA r : r.primaryTitle.k # "nan")

\* df.dropna(subset=['leadActor'])
DropNaLeadActor(t) == SelectSeq(t, LAMBDA r : r.leadActor # NaActor)

\* Series.replace([np.inf, -np.inf], np.nan) on one cell
ReplaceInf(x) == IF x.k \in {"inf", "ninf"} THEN NaN ELSE x

\* one pass of the loop over numeric_cols, with the positivity filter left out
CleanNumericCol_NoPositive(t, col) ==
    LET replaced == [i \in 1..Len(t) |-> [t[i] EXCEPT ![col] = ReplaceInf(@)]]
    IN  SelectSeq(replaced, LAMBDA r : NotNa(r[col]))

\* one pass of the loop over numeric_cols, with inf left in place
CleanNumericCol_KeepInf(t, col) ==
    LET present == SelectSeq(t, LAMBDA r : NotNa(r[col]))
    IN  IF col \in {"numVotes", "runtimeMinutes"}
        THEN SelectSeq(present, LAMBDA r : Gt(r[col], 0))
        ELSE present

\* one pass of the loop over numeric_cols: inf -> NaN, drop NaN, and for
\* numVotes and runtimeMinutes keep the positive values only
CleanNumericCol(t, col) ==
    LET replaced == [i \in 1..Len(t) |-> [t[i] EXCEPT ![col] = ReplaceInf(@)]]
        present  == SelectSeq(replaced, LAMBDA r : NotNa(r[col]))
    IN  IF col \in {"numVotes", "runtimeMinutes"}
        THEN SelectSeq(present, LAMBDA r : Gt(r[col], 0))
        ELSE present

\* if col in df.columns: ...
CleanIfPresent(t, col, columns) ==
    IF col \in columns THEN CleanNumericCol(t, col) ELSE t

\* the loop over numeric_cols, in list order
CleanNumeric(t, columns) ==
    CleanIfPresent(CleanIfPresent(CleanIfPresent(t,
        NumericCols[1], columns), NumericCols[2], columns),
        NumericCols[3], columns)

\* Series.astype(int) raises on NaN and on +-inf
CanAstypeInt(t) == \A i \in 1..Len(t) : t[i].releaseYear.k = "num"

\* float -> int64 truncates toward zero (the cell holds tenths of a year)
AstypeInt(x) == IF x.v >= 0 THEN x.v \div 10 ELSE -((-x.v) \div 10)

\* releaseYear // 10 * 10 with the // of C: truncation toward zero
Decade_Truncating(year) ==
    IF year >= 0 THEN (year \div 10) * 10 ELSE -(((-year) \div 10) * 10)

\* releaseYear // 10 * 10 (floor division)
Decade(year) == (year \div 10) * 10

\* df['releaseYear'] = ...astype(int); df['decade'] = ...
ConvertTypes(t) ==
    [i \in 1..Len(t) |->
        LET year == AstypeInt(t[i].releaseYear)
        IN  ("decade" :> Decade(year)) @@ [t[i] EXCEPT !.releaseYear = year]]

\* is_bond_actor | has_bond_title for one row
IsBondCore(r) ==
    \/ r.leadActor \in EON_BOND_ACTORS
    \/ StrContainsBond(r.primaryTitle)
    \/ StrContainsBond(r.originalTitle)

\* df['is_bond_core'] = (is_bond_actor | has_bond_title)
TagBondCore(t) ==
    [i \in 1..Len(t) |-> ("is_bond_core" :> IsBondCore(t[i])) @@ t[i]]

\* the vote filter with a strict comparison
VoteFilter_Strict(t) == SelectSeq(t, LAMBDA r : Gt(r.numVotes, VoteFloor))

\* df[df['numVotes'] >= 500]
VoteFilter(t) == SelectSeq(t, LAMBDA r : Ge(r.numVotes, VoteFloor))

Failed == [status |-> "error", rows |-> <<>>]

\* every column taken as read without a test
ColumnsRead_All == Columns

\* the columns whose absence raises a KeyError in the loader: leadActor
\* (dropna), releaseYear (astype), the two titles (str.contains) and
\* numVotes (the vote filter)
ColumnsRead == {"leadActor", "releaseYear", "primaryTitle", "originalTitle",
                "numVotes"}

\* the loader raises on a column of ColumnsRead that is absent, or on a
\* title column that Series.str does not take
RaisesOnColumns(file) ==
    \/ ~(ColumnsRead \subseteq file.columns)
    \/ \E col \in TextCols : ~CanStrAccessor(file, col)

\* data_loader.load_and_preprocess_data; read_csv raises on a missing file
load_and_preprocess_data(file) ==
    IF ~file.exists \/ RaisesOnColumns(file)
    THEN Failed
    ELSE LET cleaned == CleanNumeric(DropNaLeadActor(ReadCsv(file)),
                                     file.columns)
         IN  IF ~CanAstypeInt(cleaned)
             THEN Failed
             ELSE [status |-> "ok",
                   rows   |-> VoteFilter(TagBondCore(ConvertTypes(cleaned)))]

\* bond_dashboard.load_and_preprocess_data: no cleaning of the numeric columns
load_and_preprocess_data_monolith(file) ==
    IF ~file.exists \/ RaisesOnColumns(file)
    THEN Failed
    ELSE LET kept == DropNaLeadActor(ReadCsv(file))
         IN  IF ~CanAstypeInt(kept)
             THEN Failed
             ELSE [status |-> "ok",
                   rows   |-> VoteFilter(TagBondCore(ConvertTypes(kept)))]

--------------------------------------------------------------------------
(* Input files *)

\* the genre flags of a row: 1 for the genres in S, 0 for the others
Genres(S) == [g \in Range(genre_cols) |-> IF g \in S THEN 1 ELSE 0]

\* a row without any genre
Row(actor, year, rating, votes, runtime, primary, original) ==
    Genres({}) @@
    [leadActor |-> actor, releaseYear |-> year, averageRating |-> rating,
     numVotes |-> votes, runtimeMinutes |-> runtime,
     primaryTitle |-> primary, originalTitle |-> original]

T_DrNo == Str(<<"D","r","N","o">>)

T_Bon == Str(<<"B","o","n">>)

T_bOND == Str(<<"a","b","O","N","D">>)

T_007 == Str(<<"0","0","7">>)

Y(year) == Num(year * 10)

SeqsUpTo(S, n) == UNION {[1..k -> S] : k \in 0..n}

\* rows that exercise the cleaning steps one at a time, around a valid row
LoaderRows ==
    {Row("Sean Connery", Y(1962), Num(7), Num(500), Num(110), T_DrNo, T_DrNo)}
    \cup {Row(a, Y(1971), Num(6), Num(900), Num(120), T_Bon, T_Bon) :
              a \in {NaActor, "Tom Hanks", "sean connery"}}
    \cup {Row("Tom Hanks", Y(1995), Num(8), Num(700), Num(95), p, o) :
              p \in {T_bOND, NaText}, o \in {T_007, T_DrNo}}
    \cup {Row("Roger Moore", y, Num(9), Num(600), Num(100), T_DrNo, T_DrNo) :
              y \in {Num(19995), Y(-5), NaN, PosInf}}
    \cup {Row("Roger Moore", NaN, NaN, Num(600), Num(100), T_DrNo, T_DrNo)}
    \cup {Row("Daniel Craig", Y(2006), r, Num(800), Num(144), T_DrNo, NaText) :
              r \in {PosInf, NegInf, Num(11), Num(-1), Num(10)}}
    \cup {Row("Daniel Craig", Y(2008), Num(6), v, Num(106), T_DrNo, T_DrNo) :
              v \in {Num(499), Num(501), Num(0), NaN, PosInf, NegInf}}
    \cup {Row("Pierce Brosnan", Y(1999), Num(6), Num(500), m, T_DrNo, T_DrNo) :
              m \in {Num(0), Num(-90), NaN, PosInf}}

Files == SeqsUpTo(LoaderRows, MaxRows)

T_GoldenEye == Str(<<"G","o","l","d","e","n","E","y","e">>)

T_GOLDENEYE == Str(<<"G","O","L","D","E","N","E","Y","E">>)

T_Goldeneye2 == Str(<<"T","h","e"," ","G","o","l","d","e","n","e","y","e"," ","S","t","o","r","y">>)

T_CasinoRoyale == Str(<<"C","a","s","i","n","o"," ","R","o","y","a","l","e">>)

\* a film of 600 votes and 100 minutes with the genres in S
FilmRow(actor, year, rating, title, S) ==
    Genres(S) @@
    [leadActor |-> actor, releaseYear |-> Y(year), averageRating |-> Num(rating),
     numVotes |-> Num(600), runtimeMinutes |-> Num(100),
     primaryTitle |-> title, originalTitle |-> T_DrNo]

\* films around two targets, (1995, 'goldeneye', Pierce Brosnan) and
\* (2006, 'casino royale', Daniel Craig): the target's own record, records of
\* other actors with the keyword, a record of the keyword in another year,
\* and a record without title
FilmRows ==
    {FilmRow("Pierce Brosnan", 1995, 7, T_GoldenEye, {"Action", "Thriller"}),
     FilmRow("Tom Hanks", 1995, 6, T_Goldeneye2, {"Thriller"}),
     FilmRow("Sean Connery", 1995, 5, T_GOLDENEYE, {"Drama"}),
     FilmRow("Daniel Craig", 2006, 8, T_CasinoRoyale,
             {"Action", "Adventure", "Thriller"}),
     FilmRow("Daniel Craig", 2006, 6, NaText, {"Thriller"}),
     FilmRow("Pierce Brosnan", 1999, 6, T_GoldenEye, {"Thriller"})}

FilmFiles == SeqsUpTo(FilmRows, MaxFilmRows)

\* files of one valid row at most
SchemaRows ==
    {Row("Sean Connery", Y(1962), Num(7), Num(500), Num(110), T_DrNo, T_DrNo),
     Row("Tom Hanks", Y(1995), NaN, Num(700), Num(0), T_bOND, T_007)}

SchemaFiles == SeqsUpTo(SchemaRows, MaxSchemaRows)

\* clean rows of two actors over several years, for the sidebar: long enough
\* files give one actor the five films the general focus asks for
ViewRows ==
    {Row("Tom Hanks", Y(1995), Num(8), Num(700), Num(95), T_bOND, T_DrNo),
     Row("Tom Hanks", Y(1998), Num(7), Num(900), Num(120), T_DrNo, T_DrNo),
     Row("Tom Hanks", Y(1971), Num(5), Num(500), Num(90), T_Bon, T_007),
     Row("Sean Connery", Y(1962), Num(7), Num(500), Num(110), T_DrNo, T_DrNo)}

ViewFiles == SeqsUpTo(ViewRows, MaxViewRows)

\* the i-th film of Tom Hanks in a file: the second has too few votes to be
\* loaded
HanksFilm(i) ==
    Row("Tom Hanks", Y(1990 + i), Num(5 + (i % 3)),
        Num(IF i = 2 THEN 400 ELSE 500 + 100 * (i % 2)), Num(95),
        T_DrNo, T_DrNo)

\* files of k films of Tom Hanks followed by m films of Sean Connery, around
\* the five films the general focus asks for
GeneralFiles ==
    {[i \in 1..(k + m) |->
         IF i <= k THEN HanksFilm(i)
         ELSE Row("Sean Connery", Y(1962), Num(7), Num(500), Num(110),
                  T_DrNo, T_DrNo)] :
        k \in 0..MaxActorFilms, m \in 0..MaxActorFilms}

\* the i-th film of a long filmography: ratings of the 1..10 scale that
\* rise or fall in pairs or repeat after eight films, and either one actor
\* or two in turn
UniverseRow(i, ratings, cast) ==
    Row(IF cast = "two" /\ i % 2 = 0 THEN "Tom Hanks" ELSE "Timothy Dalton",
        Y(1980 + i),
        Num(CASE ratings = "rising"  -> ((i - 1) \div 2) + 1
              [] ratings = "falling" -> 10 - ((i - 1) \div 2)
              [] OTHER               -> ((i - 1) % 8) + 2),
        Num(600), Num(100), T_DrNo, T_DrNo)

\* filmographies of up to MaxUniverseRows films, more than the ranking shows
UniverseFiles ==
    {[i \in 1..n |-> UniverseRow(i, ratings, cast)] :
        n \in 0..MaxUniverseRows,
        ratings \in {"rising", "falling", "repeating"},
        cast \in {"one", "two"}}

\* the rows of t at the positions in I, in table order
SubTable(t, I) ==
    LET F[k \in 0..Len(t)] ==
            IF k = 0 THEN <<>>
            ELSE IF k \in I THEN Append(F[k - 1], t[k]) ELSE F[k - 1]
    IN  F[Len(t)]

--------------------------------------------------------------------------
(* Helpers on tables *)

RECURSIVE SumNum(_, _)
\* sum of the finite cells of column col
SumNum(t, col) ==
    IF t = <<>> THEN 0
    ELSE (IF Head(t)[col].k = "num" THEN Head(t)[col].v ELSE 0)
         + SumNum(Tail(t), col)

Kinds(t, col) == {t[i][col].k : i \in 1..Len(t)}

\* Series.sum() (NaN skipped): a float cell
SumCell(t, col) ==
    CASE "inf" \in Kinds(t, col) /\ "ninf" \in Kinds(t, col) -> NaN
      [] "inf" \in Kinds(t, col) -> PosInf
      [] "ninf" \in Kinds(t, col) -> NegInf
      [] OTHER -> Num(SumNum(t, col))

\* Series.mean() (NaN skipped): [k, s, n], for k = "num" the value s / n
MeanCell(t, col) ==
    LET present == SelectSeq(t, LAMBDA r : NotNa(r[col]))
        total   == SumCell(present, col)
    IN  IF present = <<>> THEN [k |-> "nan", s |-> 0, n |-> 0]
        ELSE [k |-> total.k, s |-> total.v, n |-> Len(present)]

Years(t) == {t[i].releaseYear : i \in 1..Len(t)}

MinOf(S) == CHOOSE x \in S : \A y \in S : x <= y

MaxOf(S) == CHOOSE x \in S : \A y \in S : x >= y

Actors(t) == {t[i].leadActor : i \in 1..Len(t)}

OfActor(t, a) == SelectSeq(t, LAMBDA r : r.leadActor = a)

\* the names of the model in Python's string order (code points)
ActorOrder ==
    <<"Daniel Craig", "George Lazenby", "Pierce Brosnan", "Roger Moore",
      "Sean Connery", "Timothy Dalton", "Tom Hanks", "sean connery">>

\* sorted(S) for a set of names
Sorted(S) == SelectSeq(ActorOrder, LAMBDA a : a \in S)

--------------------------------------------------------------------------
(* Sidebar filter: dashboard/components.py, bond_dashboard.py *)

MinFilms == 5

MinVoteSum == 1000

DefaultYearMin == 1960

DefaultYearMax == 2025

\* df_current for the chosen focus
FocusSubset(t, focus) ==
    IF focus = "core" THEN SelectSeq(t, LAMBDA r : r.is_bond_core) ELSE t

\* the actors whose votes sum to MinVoteSum, whatever their number of films
TopActors_VotesOnly(t) ==
    {a \in Actors(t) : Ge(SumCell(OfActor(t, a), "numVotes"), MinVoteSum)}

\* groupby('leadActor').filter(len(x) >= 5 and x['numVotes'].sum() >= 1000)
TopActors(t) ==
    {a \in Actors(t) : /\ Len(OfActor(t, a)) >= MinFilms
                       /\ Ge(SumCell(OfActor(t, a), "numVotes"), MinVoteSum)}

\* every actor of the focus subset as an option
ActorListOptions_AllActors(current, focus) ==
    IF focus = "core"
    THEN Sorted(Actors(current))
    ELSE Sorted(TopActors(current))

\* actor_list_options
ActorListOptions(current, focus) ==
    IF focus = "core"
    THEN Sorted(EON_BOND_ACTORS \cap Actors(current))
    ELSE Sorted(TopActors(current))

\* year_min, year_max: the slider's range
YearRange(current, dmin, dmax) ==
    IF current = <<>> THEN <<dmin, dmax>>
    ELSE <<MinOf(Years(current)), MaxOf(Years(current))>>

\* the years the model offers as slider positions
SliderStops ==
    {-5, 1962, 1971, 1995, 1998, 1999, 2006, 2008}

\* the <<lo, hi>> a user can set the range slider to
SliderChoices(range) ==
    IF range[1] < range[2]
    THEN {<<lo, hi>> \in SliderStops \X SliderStops :
             range[1] <= lo /\ lo <= hi /\ hi <= range[2]}
    ELSE {range}

\* the mask that keeps the actors that are not selected
ApplyFilters_NotIn(current, actors, years) ==
    SelectSeq(current, LAMBDA r : /\ r.leadActor \notin Range(actors)
                                  /\ r.releaseYear >= years[1]
                                  /\ r.releaseYear <= years[2])

\* the mask with an exclusive upper bound
ApplyFilters_Exclusive(current, actors, years) ==
    SelectSeq(current, LAMBDA r : /\ r.leadActor \in Range(actors)
                                  /\ r.releaseYear >= years[1]
                                  /\ r.releaseYear < years[2])

\* df_current[isin(selected_actors) & (year >= lo) & (year <= hi)]
ApplyFilters(current, actors, years) ==
    SelectSeq(current, LAMBDA r : /\ r.leadActor \in Range(actors)
                                  /\ r.releaseYear >= years[1]
                                  /\ r.releaseYear <= years[2])

Table(rows) == [kind |-> "table", rows |-> rows]

NoView == [kind |-> "None", rows |-> <<>>]

\* "Apply ALL Filters" of components.render_sidebar_filters
FilteredView(current, actors, years) ==
    IF actors # <<>> /\ current # <<>>
    THEN Table(ApplyFilters(current, actors, years))
    ELSE NoView

\* a view that falls back to the whole focus subset
FilteredViewMonolith_All(current, actors, years) ==
    IF actors # <<>> /\ current # <<>>
    THEN Table(ApplyFilters(current, actors, years))
    ELSE Table(current)

\* "Apply ALL Filters" of bond_dashboard.render_dashboard
FilteredViewMonolith(current, actors, years) ==
    IF actors # <<>> /\ current # <<>>
    THEN Table(ApplyFilters(current, actors, years))
    ELSE Table(<<>>)

\* the guard that tests for None only
NoData_NoneOnly(view) == view.kind = "None"

\* df_filtered is None or df_filtered.empty / len(df_filtered) == 0
NoData(view) == view.kind = "None" \/ view.rows = <<>>

--------------------------------------------------------------------------
(* Per-actor aggregation: dashboard/charts.py *)

\* Series.count(): the values that are not missing
CountNotNa(t, col) == Len(SelectSeq(t, LAMBDA r : NotNa(r[col])))

\* the group keys of a grouping that lists every known actor (a categorical
\* key with observed=False)
GroupKeys_AllActors(t) == Sorted(EON_BOND_ACTORS)

\* the group keys of groupby('leadActor'): the values present, sorted
GroupKeys(t) == Sorted(Actors(t))

\* groupby('leadActor').agg(averageRating=mean, totalFilms=count of primaryTitle)
GroupByActor(t) ==
    LET keys == GroupKeys(t)
    IN  [i \in 1..Len(keys) |->
            [leadActor     |-> keys[i],
             averageRating |-> MeanCell(OfActor(t, keys[i]), "averageRating"),
             totalFilms    |-> CountNotNa(OfActor(t, keys[i]), "primaryTitle")]]

\* create_actor_performance_chart: the aggregated table behind the chart;
\* None has no groupby, so the call raises
create_actor_performance_chart(view) ==
    IF view.kind = "None"
    THEN [status |-> "error", rows |-> <<>>]
    ELSE [status |-> "ok", rows |-> GroupByActor(view.rows)]

--------------------------------------------------------------------------
(* Target films and chart aggregations: dashboard/charts.py *)

\* Series.str.lower().str.contains(pat, case=False, na=False) on one cell
StrLowerContains(cell, pat) ==
    /\ cell.k = "str"
    /\ Contains(Lower(Lower(cell.s)), Lower(pat))

\* the match on the title keywords alone
Matches_AnyYear(df, target) ==
    SelectSeq(df, LAMBDA r :
        StrLowerContains(r.primaryTitle, target.title_keywords))

\* matches: the rows of the target's year whose primaryTitle holds its keywords
Matches(df, target) ==
    SelectSeq(df, LAMBDA r :
        /\ r.releaseYear = target.year
        /\ StrLowerContains(r.primaryTitle, target.title_keywords))

\* matches.iloc[0] without the preference for the target's actor
SelectedMatch_First(df, target) == Matches(df, target)[1]

\* matches.iloc[0], after narrowing matches to the target's actor when one of
\* them has it
SelectedMatch(df, target) ==
    LET matches == Matches(df, target)
        byActor == SelectSeq(matches, LAMBDA r : r.leadActor = target.actor)
    IN  IF byActor # <<>> THEN byActor[1] ELSE matches[1]

\* the loop over target_films: one selected row for each target that has
\* matches, in list order (pd.DataFrame() when there is none)
filter_to_specific_bond_films(df) ==
    LET hit == SelectSeq(target_films, LAMBDA tf : Matches(df, tf) # <<>>)
    IN  [i \in 1..Len(hit) |-> SelectedMatch(df, hit[i])]

\* the position of the first row of the least releaseYear
FirstOfLeastYear(t) ==
    CHOOSE i \in 1..Len(t) :
        /\ \A j \in 1..Len(t) : t[i].releaseYear <= t[j].releaseYear
        /\ \A j \in 1..(i - 1) : t[j].releaseYear # t[i].releaseYear

RECURSIVE SortByYear(_)
\* sort_values('releaseYear')
SortByYear(t) ==
    IF t = <<>> THEN <<>>
    ELSE LET i == FirstOfLeastYear(t)
         IN  <<t[i]>> \o SortByYear(SubSeq(t, 1, i - 1) \o SubSeq(t, i + 1, Len(t)))

\* reset_index(drop=True)
ResetIndex(t) == [i \in 1..Len(t) |-> [t[i] EXCEPT !.idx = i - 1]]

\* the chart of every core record, without the selection of target films
create_bond_films_rating_chart_AllCore(full) ==
    LET bond_films == SelectSeq(full, LAMBDA r : r.is_bond_core)
    IN  IF bond_films = <<>>
        THEN [status |-> "None", rows |-> <<>>]
        ELSE [status |-> "ok", rows |-> ResetIndex(SortByYear(bond_films))]

\* create_bond_films_rating_chart: the table behind the chart, None when no
\* core record or no target film is found
create_bond_films_rating_chart(full) ==
    LET bond_films == SelectSeq(full, LAMBDA r : r.is_bond_core)
        filtered   == filter_to_specific_bond_films(bond_films)
    IN  IF filtered = <<>>
        THEN [status |-> "None", rows |-> <<>>]
        ELSE [status |-> "ok", rows |-> ResetIndex(SortByYear(filtered))]

\* the other films when the selected ones are not taken out
OtherFilms_All(comparison, bond_indices) == comparison

\* df_comparison[~df_comparison.index.isin(bond_indices)]
OtherFilms(comparison, bond_indices) ==
    SelectSeq(comparison, LAMBDA r : r.idx \notin bond_indices)

\* create_bond_comparison_chart: bond_films_data and other_films_data
create_bond_comparison_chart(full) ==
    LET df_comparison == SelectSeq(full, LAMBDA r : r.Thriller = 1)
        bond_films    == filter_to_specific_bond_films(df_comparison)
        bond_indices  == {bond_films[i].idx : i \in 1..Len(bond_films)}
    IN  [bond  |-> bond_films,
         other |-> OtherFilms(df_comparison, bond_indices)]

\* the elements of a finite set of integers in ascending order
RECURSIVE Ascending(_)
Ascending(S) ==
    IF S = {} THEN <<>>
    ELSE LET m == CHOOSE x \in S : \A y \in S : x <= y
         IN  <<m>> \o Ascending(S \ {m})

Decades(t) == {t[i].decade : i \in 1..Len(t)}

OfDecade(t, d) == SelectSeq(t, LAMBDA r : r.decade = d)

RECURSIVE SumFlag(_, _)
\* the sum of the genre column g
SumFlag(t, g) ==
    IF t = <<>> THEN 0 ELSE Head(t)[g] + SumFlag(Tail(t), g)

\* groupby('decade')[genre_cols].sum().reset_index() and melt('decade', ...):
\* one row for each genre and decade, genre after genre
MeltedGenres(t) ==
    LET decades == Ascending(Decades(t))
        n       == Len(decades)
    IN  [i \in 1..(Len(genre_cols) * n) |->
            LET g == genre_cols[((i - 1) \div n) + 1]
                d == decades[((i - 1) % n) + 1]
            IN  [decade |-> d, Genre |-> g,
                 Count  |-> SumFlag(OfDecade(t, d), g)]]

\* the rows of a count that is not negative
PositiveCount_OrZero(melted) == SelectSeq(melted, LAMBDA r : r.Count >= 0)

\* df_genres_melted[df_genres_melted['Count'] > 0]
PositiveCount(melted) == SelectSeq(melted, LAMBDA r : r.Count > 0)

\* the genre aggregation of bond_dashboard.render_dashboard, on the view
GenresByDecade(t) == PositiveCount(MeltedGenres(t))

\* create_genre_evolution_chart: the target films of the view and their
\* genre aggregation, None when the view has no target film
create_genre_evolution_chart(filtered) ==
    LET bond_films == filter_to_specific_bond_films(filtered)
    IN  IF bond_films = <<>>
        THEN [status |-> "None", records |-> <<>>, rows |-> <<>>]
        ELSE [status |-> "ok", records |-> bond_films,
              rows   |-> GenresByDecade(bond_films)]

\* create_runtime_rating_chart: the scatter of the target films of the view,
\* None when the view has no target film
create_runtime_rating_chart(filtered) ==
    LET bond_films == filter_to_specific_bond_films(filtered)
    IN  IF bond_films = <<>>
        THEN [status |-> "None", records |-> <<>>, rows |-> <<>>]
        ELSE [status |-> "ok", records |-> bond_films, rows |-> bond_films]

\* create_genre_trend_chart: as the genre evolution, and None as well when
\* no genre of the target films has a positive count
create_genre_trend_chart(filtered) ==
    LET bond_films == filter_to_specific_bond_films(filtered)
        melted     == PositiveCount(MeltedGenres(bond_films))
    IN  IF bond_films = <<>> \/ melted = <<>>
        THEN [status |-> "None", records |-> bond_films, rows |-> <<>>]
        ELSE [status |-> "ok", records |-> bond_films, rows |-> melted]

\* create_production_volume_chart: groupby('decade').size() of the target
\* films of the view, None when the view has no target film
create_production_volume_chart(filtered) ==
    LET bond_films == filter_to_specific_bond_films(filtered)
        decades    == Ascending(Decades(bond_films))
    IN  IF bond_films = <<>>
        THEN [status |-> "None", records |-> <<>>, rows |-> <<>>]
        ELSE [status |-> "ok", records |-> bond_films,
              rows   |-> [i \in 1..Len(decades) |->
                            [decade |-> decades[i],
                             count  |-> Len(OfDecade(bond_films,
                                                     decades[i]))]]]

OfPair(t, a, d) == SelectSeq(t, LAMBDA r : r.leadActor = a /\ r.decade = d)

\* the group keys of groupby(['leadActor', 'decade']): the pairs present,
\* sorted by actor and then decade
PairKeys(t) ==
    LET actors  == Sorted(Actors(t))
        decades == Ascending(Decades(t))
        n       == Len(decades)
        all     == [i \in 1..(Len(actors) * n) |->
                       [leadActor |-> actors[((i - 1) \div n) + 1],
                        decade    |-> decades[((i - 1) % n) + 1]]]
    IN  SelectSeq(all, LAMBDA key :
            OfPair(t, key.leadActor, key.decade) # <<>>)

\* create_performance_heatmap: avg_rating = mean of averageRating,
\* film_count = count of primaryTitle, and the rows of film_count > 0
create_performance_heatmap(filtered) ==
    LET keys == PairKeys(filtered)
        agg  == [i \in 1..Len(keys) |->
                    LET group == OfPair(filtered, keys[i].leadActor,
                                        keys[i].decade)
                    IN  [leadActor  |-> keys[i].leadActor,
                         decade     |-> keys[i].decade,
                         avg_rating |-> MeanCell(group, "averageRating"),
                         film_count |-> CountNotNa(group, "primaryTitle")]]
    IN  SelectSeq(agg, LAMBDA r : r.film_count > 0)

\* pd.cut(averageRating, bins=[0, 6, 7, 8, 10], labels=[...]) on one cell:
\* right-closed bins, NaN outside them
RatingBand(x) ==
    IF x.k # "num" THEN "NaN"
    ELSE IF 0 < x.v /\ x.v <= 6 THEN "Below 6"
    ELSE IF 6 < x.v /\ x.v <= 7 THEN "6-7"
    ELSE IF 7 < x.v /\ x.v <= 8 THEN "7-8"
    ELSE IF 8 < x.v /\ x.v <= 10 THEN "8+"
    ELSE "NaN"

\* df['rating_band'] = pd.cut(...)
WithRatingBand(t) ==
    [i \in 1..Len(t) |->
        ("rating_band" :> RatingBand(t[i].averageRating)) @@ t[i]]

\* the timeline chart with the column added to the table it is given
create_film_timeline_chart_InPlace(filtered) ==
    [rows |-> WithRatingBand(filtered), arg |-> WithRatingBand(filtered)]

\* create_film_timeline_chart: rows is df_timeline, the copy with the
\* rating_band column; arg is the caller's table as the call leaves it
create_film_timeline_chart(filtered) ==
    [rows |-> WithRatingBand(filtered), arg |-> filtered]

--------------------------------------------------------------------------
(* State machine *)

\* the input file as the loader sees it
CsvFile == [exists |-> csv_exists, columns |-> csv_columns, rows |-> csv]

\* no chart computed: records is the table a chart is computed from, bond its
\* selected target films, other the remaining thrillers, agg its aggregation
NoChart == [records |-> <<>>, bond |-> <<>>, other |-> <<>>, agg |-> <<>>]

\* no KPI card shown
NoKpis == [shown |-> FALSE]

\* {'primaryTitle': 'N/A', 'numVotes': 0}: the film of an empty view
NoFilm == [primaryTitle |-> Str(<<"N", "/", "A">>), numVotes |-> Num(0)]

\* the 0 a card shows in place of a mean
ZeroMean == [k |-> "num", s |-> 0, n |-> 1]

\* nothing rendered by the card renderers
NoCard == [status |-> "none", elements |-> <<>>]

\* the locals of a page before it is rendered
IdlePage ==
    /\ data_focus = "core"
    /\ df_current = <<>>
    /\ actor_list_options = <<>>
    /\ selected_actors = <<>>
    /\ selected_years = <<0, 0>>
    /\ df_filtered = NoView
    /\ actor_ratings = <<>>
    /\ chart_name = "none"
    /\ chart_data = NoChart
    /\ chart_status = "none"
    /\ kpis = NoKpis
    /\ page_status = "none"

Idle ==
    /\ IdlePage
    /\ card_config = <<>>
    /\ card = NoCard

Init ==
    /\ app \in {"modular", "monolith"}
    /\ csv \in Files
    /\ csv_exists = TRUE
    /\ csv_columns = Columns
    /\ load_status = "none"
    /\ df_full = <<>>
    /\ pc = "start"
    /\ Idle

\* df_full = load_and_preprocess_data(data_file), run once (st.cache_data).
\* bond_dashboard.py then takes int(df_full['releaseYear'].min()), which
\* raises on an empty table.
Load ==
    /\ pc = "start"
    /\ LET res == IF app = "modular"
                  THEN load_and_preprocess_data(CsvFile)
                  ELSE load_and_preprocess_data_monolith(CsvFile)
           status == IF app = "monolith" /\ res.status = "ok" /\ res.rows = <<>>
                     THEN "startup_error" ELSE res.status
       IN  /\ load_status' = status
           /\ df_full' = res.rows
           /\ pc' = IF status = "ok" THEN "sidebar" ELSE "failed"
    /\ UNCHANGED <<app, card_config, card, csv, csv_exists, csv_columns, data_focus, df_current,
                   actor_list_options, selected_actors, selected_years,
                   df_filtered, actor_ratings, chart_name, chart_data,
                   chart_status, kpis, page_status>>

\* components.render_sidebar_filters(df_full): the radio, the checkboxes and
\* the slider are the user's inputs
RenderSidebarFilters ==
    /\ app = "modular"
    /\ pc = "sidebar"
    /\ \E focus \in {"core", "general"} :
         LET current == FocusSubset(df_full, focus)
             options == ActorListOptions(current, focus)
         IN  \E checked \in SUBSET Range(options) :
             \E years \in SliderChoices(
                     YearRange(current, DefaultYearMin, DefaultYearMax)) :
                LET selected == SelectSeq(options, LAMBDA a : a \in checked)
                IN  /\ data_focus' = focus
                    /\ df_current' = current
                    /\ actor_list_options' = options
                    /\ selected_actors' = selected
                    /\ selected_years' = years
                    /\ df_filtered' = FilteredView(current, selected, years)
    /\ pc' = "page"
    /\ UNCHANGED <<app, card_config, card, csv, csv_exists, csv_columns, load_status, df_full,
                   actor_ratings, chart_name, chart_data, chart_status,
                   kpis, page_status>>

\* df_filtered.loc[df_filtered['averageRating'].idxmax()]: the first record
\* of the greatest rating
BestFilm(rows) ==
    LET i == CHOOSE i \in 1..Len(rows) :
                /\ \A j \in 1..Len(rows) :
                      rows[j].averageRating.v <= rows[i].averageRating.v
                /\ \A j \in 1..(i - 1) :
                      rows[j].averageRating.v < rows[i].averageRating.v
    IN  rows[i]

\* title[:20] + '...' if len(title) > 20 else title
TitleContext(chars) ==
    IF Len(chars) > 20 THEN SubSeq(chars, 1, 20) \o <<".", ".", ".">>
    ELSE chars

\* components.render_key_metrics(df_filtered): the four cards; len() of a
\* missing title raises
render_key_metrics(rows) ==
    IF rows = <<>>
    THEN [status |-> "ok",
          cards  |-> [shown |-> TRUE, total_films |-> 0,
                      avg_rating |-> ZeroMean, avg_runtime |-> ZeroMean,
                      best_rating |-> Num(0),
                      context |-> Str(<<"N", "/", "A">>)]]
    ELSE LET best_film == BestFilm(rows)
         IN  IF best_film.primaryTitle.k # "str"
             THEN [status |-> "error", cards |-> NoKpis]
             ELSE [status |-> "ok",
                   cards  |-> [shown |-> TRUE, total_films |-> Len(rows),
                               avg_rating  |-> MeanCell(rows, "averageRating"),
                               avg_runtime |-> MeanCell(rows, "runtimeMinutes"),
                               best_rating |-> best_film.averageRating,
                               context |-> Str(TitleContext(
                                               best_film.primaryTitle.s))]]

\* the charts of pages/overview.render_dashboard after the actor ranking,
\* in page order: the runtime chart (None without a target film in the view)
\* and the genre trend (st.info's element when None) go to st.altair_chart
\* as they are, which raises on both
OverviewCharts(rows) ==
    IF create_runtime_rating_chart(rows).status = "None" THEN "error"
    ELSE IF create_genre_trend_chart(rows).status = "None" THEN "error"
    ELSE "rendered"

\* pages/overview.render_dashboard(df_full, df_filtered): a missing or empty
\* view ends in the warning, otherwise the key metrics, the actor ranking
\* and the other charts
RenderOverview ==
    /\ app = "modular"
    /\ pc = "page"
    /\ IF NoData(df_filtered)
       THEN /\ page_status' = "placeholder"
            /\ UNCHANGED <<actor_ratings, chart_status, kpis>>
       ELSE LET metrics == render_key_metrics(df_filtered.rows)
                res     == create_actor_performance_chart(df_filtered)
            IN  IF metrics.status = "error"
                THEN /\ page_status' = "error"
                     /\ UNCHANGED <<actor_ratings, chart_status, kpis>>
                ELSE /\ kpis' = metrics.cards
                     /\ actor_ratings' = res.rows
                     /\ chart_status' = res.status
                     /\ page_status' = OverviewCharts(df_filtered.rows)
    /\ pc' = "done"
    /\ UNCHANGED <<app, card_config, card, csv, csv_exists, csv_columns, load_status, df_full,
                   data_focus, df_current, actor_list_options, selected_actors,
                   selected_years, df_filtered, chart_name, chart_data>>

\* the candidates of sort_values(by='numVotes', ascending=False).iloc[0]:
\* the records of the most votes (the sort is not stable)
MostVoted(rows) ==
    {r \in Range(rows) :
        \A q \in Range(rows) :
           \/ r.numVotes.k = "inf"
           \/ (q.numVotes.k = "num" /\ q.numVotes.v <= r.numVotes.v)}

\* the card f"{highest_voted_film['primaryTitle'][:15]}..."
MostPopularCard(chars) ==
    Str(SubSeq(chars, 1, IF Len(chars) < 15 THEN Len(chars) ELSE 15)
        \o <<".", ".", ".">>)

\* the KPI cards of bond_dashboard.render_dashboard for the view and its
\* most voted film: slicing a missing title raises after four cards
KeyMetricsMonolith(rows, highest_voted_film) ==
    IF rows = <<>>
    THEN [status |-> "ok",
          cards  |-> [shown |-> TRUE, total_films |-> 0,
                      avg_rating |-> ZeroMean, avg_runtime |-> ZeroMean,
                      total_votes |-> Num(0),
                      most_popular |-> MostPopularCard(<<"N", "/", "A">>)]]
    ELSE LET title == highest_voted_film.primaryTitle
         IN  [status |-> IF title.k = "str" THEN "ok" ELSE "error",
              cards  |-> [shown |-> TRUE, total_films |-> Len(rows),
                          avg_rating  |-> MeanCell(rows, "averageRating"),
                          avg_runtime |-> MeanCell(rows, "runtimeMinutes"),
                          total_votes |-> SumCell(rows, "numVotes"),
                          most_popular |->
                              IF title.k = "str"
                              THEN MostPopularCard(title.s) ELSE NaText]]

\* bond_dashboard.render_dashboard: focus, checkboxes, slider, filter, the
\* error message when nothing is selected, the KPI cards, and the charts
\* when total_films > 0
RenderDashboardMonolith ==
    /\ app = "monolith"
    /\ pc = "sidebar"
    /\ \E focus \in {"core", "general"} :
         LET current == FocusSubset(df_full, focus)
             options == ActorListOptions(current, focus)
         IN  \E checked \in SUBSET Range(options) :
             \E years \in SliderChoices(
                     YearRange(current, MinOf(Years(df_full)),
                                        MaxOf(Years(df_full)))) :
                LET selected == SelectSeq(options, LAMBDA a : a \in checked)
                    view     == FilteredViewMonolith(current, selected, years)
                IN  /\ data_focus' = focus
                    /\ df_current' = current
                    /\ actor_list_options' = options
                    /\ selected_actors' = selected
                    /\ selected_years' = years
                    /\ df_filtered' = view
                    /\ \E highest_voted_film \in
                            IF view.rows = <<>> THEN {NoFilm}
                            ELSE MostVoted(view.rows) :
                          LET metrics == KeyMetricsMonolith(
                                             view.rows, highest_voted_film)
                          IN  /\ kpis' = metrics.cards
                              /\ IF metrics.status = "ok"
                                    /\ Len(view.rows) > 0
                                 THEN /\ actor_ratings' =
                                            GroupByActor(view.rows)
                                      /\ chart_name' = "dashboard"
                                      /\ chart_data' =
                                            [NoChart EXCEPT
                                                !.records = view.rows,
                                                !.agg = GenresByDecade(
                                                            view.rows)]
                                      /\ chart_status' = "ok"
                                      /\ page_status' = "rendered"
                                 ELSE /\ actor_ratings' = <<>>
                                      /\ chart_name' = "none"
                                      /\ chart_data' = NoChart
                                      /\ chart_status' = "none"
                                      /\ page_status' =
                                            IF metrics.status = "error"
                                            THEN "error"
                                            ELSE IF selected # <<>>
                                                    /\ current # <<>>
                                            THEN "empty"
                                            ELSE "placeholder"
    /\ pc' = "done"
    /\ UNCHANGED <<app, card_config, card, csv, csv_exists, csv_columns, load_status, df_full>>

\* a widget interaction reruns the script from the top: its locals are
\* rebuilt, the cached table is reused
Rerun ==
    /\ pc = "done"
    /\ pc' = "sidebar"
    /\ data_focus' = "core"
    /\ df_current' = <<>>
    /\ actor_list_options' = <<>>
    /\ selected_actors' = <<>>
    /\ selected_years' = <<0, 0>>
    /\ df_filtered' = NoView
    /\ actor_ratings' = <<>>
    /\ chart_name' = "none"
    /\ chart_data' = NoChart
    /\ chart_status' = "none"
    /\ kpis' = NoKpis
    /\ page_status' = "none"
    /\ UNCHANGED <<app, card_config, card, csv, csv_exists, csv_columns, load_status, df_full>>

\* CHART_NAMES of the model: the charts of pages/individual_charts.py whose
\* tables are modelled
ChartNames ==
    {"Actor Performance Ranking", "Bond vs Other Thriller Films",
     "Runtime vs Rating Analysis", "Genre Evolution by Decade",
     "Genre Popularity Trend", "Production Volume by Decade",
     "Performance Heatmap", "Complete Film Timeline"}

\* pages/individual_charts.render_individual_chart(df_full, chart_name): the
\* sidebar, the guard and the chart of that name; st.altair_chart(None)
\* raises, and only the genre trend is tested before it is drawn
RenderIndividualChart ==
    /\ app = "modular"
    /\ pc = "sidebar"
    /\ \E name \in ChartNames : \E focus \in {"core", "general"} :
         LET current == FocusSubset(df_full, focus)
             options == ActorListOptions(current, focus)
         IN  \E checked \in SUBSET Range(options) :
             \E years \in SliderChoices(
                     YearRange(current, DefaultYearMin, DefaultYearMax)) :
                LET selected == SelectSeq(options, LAMBDA a : a \in checked)
                    view     == FilteredView(current, selected, years)
                IN  /\ data_focus' = focus
                    /\ df_current' = current
                    /\ actor_list_options' = options
                    /\ selected_actors' = selected
                    /\ selected_years' = years
                    /\ chart_name' = name
                    /\ IF NoData(view)
                       THEN /\ df_filtered' = view
                            /\ actor_ratings' = <<>>
                            /\ chart_data' = NoChart
                            /\ chart_status' = "none"
                            /\ page_status' = "placeholder"
                            /\ df_full' = df_full
                       ELSE CASE name = "Actor Performance Ranking" ->
                                 LET res == create_actor_performance_chart(view)
                                 IN  /\ df_filtered' = view
                                     /\ actor_ratings' = res.rows
                                     /\ chart_data' =
                                           [NoChart EXCEPT !.records = view.rows]
                                     /\ chart_status' = res.status
                                     /\ page_status' = "rendered"
                                     /\ df_full' = df_full
                              [] name = "Bond vs Other Thriller Films" ->
                                 LET res == create_bond_comparison_chart(df_full)
                                 IN  /\ df_filtered' = view
                                     /\ actor_ratings' = <<>>
                                     /\ chart_data' =
                                           [records |-> SelectSeq(df_full,
                                                LAMBDA r : r.Thriller = 1),
                                            bond    |-> res.bond,
                                            other   |-> res.other,
                                            agg     |-> <<>>]
                                     /\ chart_status' = "ok"
                                     /\ page_status' = "rendered"
                                     /\ df_full' = df_full
                              [] name = "Genre Evolution by Decade" ->
                                 LET res == create_genre_evolution_chart(view.rows)
                                 IN  /\ df_filtered' = view
                                     /\ actor_ratings' = <<>>
                                     /\ chart_data' =
                                           [records |-> view.rows,
                                            bond    |-> res.records,
                                            other   |-> <<>>,
                                            agg     |-> res.rows]
                                     /\ chart_status' = res.status
                                     /\ page_status' =
                                           IF res.status = "None"
                                           THEN "error" ELSE "rendered"
                                     /\ df_full' = df_full
                              [] name \in {"Runtime vs Rating Analysis",
                                           "Production Volume by Decade"} ->
                                 LET res == IF name = "Runtime vs Rating Analysis"
                                            THEN create_runtime_rating_chart(
                                                     view.rows)
                                            ELSE create_production_volume_chart(
                                                     view.rows)
                                 IN  /\ df_filtered' = view
                                     /\ actor_ratings' = <<>>
                                     /\ chart_data' =
                                           [records |-> view.rows,
                                            bond    |-> res.records,
                                            other   |-> <<>>,
                                            agg     |-> res.rows]
                                     /\ chart_status' = res.status
                                     /\ page_status' =
                                           IF res.status = "None"
                                           THEN "error" ELSE "rendered"
                                     /\ df_full' = df_full
                              [] name = "Genre Popularity Trend" ->
                                 LET res == create_genre_trend_chart(view.rows)
                                 IN  /\ df_filtered' = view
                                     /\ actor_ratings' = <<>>
                                     /\ chart_data' =
                                           [records |-> view.rows,
                                            bond    |-> res.records,
                                            other   |-> <<>>,
                                            agg     |-> res.rows]
                                     /\ chart_status' = res.status
                                     /\ page_status' =
                                           IF res.status = "None"
                                           THEN "placeholder" ELSE "rendered"
                                     /\ df_full' = df_full
                              [] name = "Performance Heatmap" ->
                                 /\ df_filtered' = view
                                 /\ actor_ratings' = <<>>
                                 /\ chart_data' =
                                       [NoChart EXCEPT
                                           !.records = view.rows,
                                           !.agg = create_performance_heatmap(
                                                       view.rows)]
                                 /\ chart_status' = "ok"
                                 /\ page_status' = "rendered"
                                 /\ df_full' = df_full
                              [] name = "Complete Film Timeline" ->
                                 LET res == create_film_timeline_chart(view.rows)
                                 IN  /\ df_filtered' = Table(res.arg)
                                     /\ actor_ratings' = <<>>
                                     /\ chart_data' =
                                           [NoChart EXCEPT
                                               !.records = view.rows,
                                               !.agg = res.rows]
                                     /\ chart_status' = "ok"
                                     /\ page_status' = "rendered"
                                     /\ df_full' = df_full
    /\ pc' = "done"
    /\ UNCHANGED <<app, card_config, card, csv, csv_exists, csv_columns,
                   load_status, kpis>>

\* pages/story_mode.render_story_mode(df_full), as far as its first chart:
\* the target films of the whole table and the Chapter 1 rating chart
RenderStoryMode ==
    /\ app = "modular"
    /\ pc = "sidebar"
    /\ LET df_story == filter_to_specific_bond_films(df_full)
           res      == create_bond_films_rating_chart(df_full)
       IN  IF df_story = <<>>
           THEN /\ chart_data' = [NoChart EXCEPT !.records = df_full]
                /\ chart_status' = "none"
                /\ page_status' = "placeholder"
           ELSE /\ chart_data' = [records |-> df_full,
                                  bond    |-> df_story,
                                  other   |-> <<>>,
                                  agg     |-> res.rows]
                /\ chart_status' = res.status
                /\ page_status' = "rendered"
    /\ chart_name' = "Story Mode"
    /\ pc' = "done"
    /\ UNCHANGED <<app, card_config, card, csv, csv_exists, csv_columns, load_status, df_full,
                   data_focus, df_current, actor_list_options, selected_actors,
                   selected_years, df_filtered, actor_ratings, kpis>>

\* df_actor.loc[df_actor['averageRating'].idxmin()]: the first record of the
\* least rating
WorstFilm(rows) ==
    LET i == CHOOSE i \in 1..Len(rows) :
                /\ \A j \in 1..Len(rows) :
                      rows[j].averageRating.v >= rows[i].averageRating.v
                /\ \A j \in 1..(i - 1) :
                      rows[j].averageRating.v > rows[i].averageRating.v
    IN  rows[i]

RECURSIVE Perms(_)
\* the orders of the rows of t
Perms(t) ==
    IF t = <<>> THEN {<<>>}
    ELSE UNION {{<<t[i]>> \o p :
                    p \in Perms(SubSeq(t, 1, i - 1)
                                \o SubSeq(t, i + 1, Len(t)))} :
                i \in 1..Len(t)}

RECURSIVE SortByRatingDescending(_)
\* sort_values(by='averageRating', ascending=False): the default sort is
\* not stable, records of one rating come in any order
SortByRatingDescending(t) ==
    IF t = <<>> THEN {<<>>}
    ELSE LET m    == MaxOf({t[i].averageRating.v : i \in 1..Len(t)})
             top  == SelectSeq(t, LAMBDA r : r.averageRating.v = m)
             rest == SelectSeq(t, LAMBDA r : r.averageRating.v # m)
         IN  {p \o q : p \in Perms(top), q \in SortByRatingDescending(rest)}

\* the number of films of the ranking
TopFilms == 15

\* a head that keeps every row
HeadRows_All(t, n) == t

\* df.head(n)
HeadRows(t, n) == SubSeq(t, 1, IF Len(t) < n THEN Len(t) ELSE n)

\* pages/actor_universe.render_actor_universe(df_full, EON_BOND_ACTORS): the
\* selectbox, the warning for an actor without films, the quick stats and
\* the ranking of the top films
RenderActorUniverse ==
    /\ app = "modular"
    /\ pc = "sidebar"
    /\ \E selected_actor \in EON_BOND_ACTORS :
         LET df_actor == OfActor(df_full, selected_actor)
         IN  /\ selected_actors' = <<selected_actor>>
             /\ IF df_actor = <<>>
                THEN /\ chart_data' = NoChart
                     /\ chart_status' = "none"
                     /\ kpis' = NoKpis
                     /\ page_status' = "placeholder"
                ELSE \E df_sorted \in SortByRatingDescending(df_actor) :
                     /\ chart_data' =
                           [records |-> df_actor,
                            bond    |-> SelectSeq(df_actor,
                                            LAMBDA r : r.is_bond_core),
                            other   |-> SelectSeq(df_actor,
                                            LAMBDA r : ~r.is_bond_core),
                            agg     |-> HeadRows(df_sorted, TopFilms)]
                     /\ chart_status' = "ok"
                     /\ kpis' =
                           [shown       |-> TRUE,
                            bond_count  |-> Len(SelectSeq(df_actor,
                                                LAMBDA r : r.is_bond_core)),
                            other_count |-> Len(SelectSeq(df_actor,
                                                LAMBDA r : ~r.is_bond_core)),
                            avg_rating  |-> MeanCell(df_actor, "averageRating"),
                            best_film   |-> BestFilm(df_actor),
                            worst_film  |-> WorstFilm(df_actor)]
                     /\ page_status' = "rendered"
    /\ chart_name' = "Actor Universe"
    /\ pc' = "done"
    /\ UNCHANGED <<app, card_config, card, csv, csv_exists, csv_columns,
                   load_status, df_full, data_focus, df_current,
                   actor_list_options, selected_years, df_filtered,
                   actor_ratings>>

Next ==
    \/ Load
    \/ RenderSidebarFilters
    \/ RenderOverview
    \/ RenderDashboardMonolith
    \/ Rerun

Spec == Init /\ [][Next]_vars

\* the same program on the files of ViewFiles
InitView ==
    /\ app \in {"modular", "monolith"}
    /\ csv \in ViewFiles
    /\ csv_exists = TRUE
    /\ csv_columns = Columns
    /\ load_status = "none"
    /\ df_full = <<>>
    /\ pc = "start"
    /\ Idle

SpecView == InitView /\ [][Next]_vars

\* create_actor_performance_chart as a function of its argument: any view of
\* a loaded table, the empty one and None included
InitAgg ==
    /\ app = "modular"
    /\ csv \in Files
    /\ csv_exists = TRUE
    /\ csv_columns = Columns
    /\ load_status = load_and_preprocess_data(FullFile(csv)).status
    /\ df_full = load_and_preprocess_data(FullFile(csv)).rows
    /\ data_focus = "core"
    /\ df_current = df_full
    /\ actor_list_options = <<>>
    /\ selected_actors = <<>>
    /\ selected_years = <<0, 0>>
    /\ df_filtered \in {NoView} \cup
                       {Table(SubTable(df_full, I)) : I \in SUBSET (1..Len(df_full))}
    /\ actor_ratings = <<>>
    /\ chart_name = "none"
    /\ chart_data = NoChart
    /\ chart_status = "none"
    /\ kpis = NoKpis
    /\ card_config = <<>>
    /\ card = NoCard
    /\ page_status = "none"
    /\ pc = "chart"

ApplyActorPerformanceChart ==
    /\ pc = "chart"
    /\ LET res == create_actor_performance_chart(df_filtered)
       IN  /\ actor_ratings' = res.rows
           /\ chart_status' = res.status
    /\ pc' = "done"
    /\ UNCHANGED <<app, card_config, card, csv, csv_exists, csv_columns, load_status, df_full,
                   data_focus, df_current, actor_list_options, selected_actors,
                   selected_years, df_filtered, chart_name, chart_data,
                   kpis, page_status>>

NextAgg == ApplyActorPerformanceChart

SpecAgg == InitAgg /\ [][NextAgg]_vars

\* the pages of both programs on the files of FilmFiles
InitFilms ==
    /\ app \in {"modular", "monolith"}
    /\ csv \in FilmFiles
    /\ csv_exists = TRUE
    /\ csv_columns = Columns
    /\ load_status = "none"
    /\ df_full = <<>>
    /\ pc = "start"
    /\ Idle

NextFilms ==
    \/ Load
    \/ RenderSidebarFilters
    \/ RenderOverview
    \/ RenderIndividualChart
    \/ RenderStoryMode
    \/ RenderDashboardMonolith
    \/ Rerun

SpecFilms == InitFilms /\ [][NextFilms]_vars

\* the same program on the files of GeneralFiles
InitGeneral ==
    /\ app \in {"modular", "monolith"}
    /\ csv \in GeneralFiles
    /\ csv_exists = TRUE
    /\ csv_columns = Columns
    /\ load_status = "none"
    /\ df_full = <<>>
    /\ pc = "start"
    /\ Idle

SpecGeneral == InitGeneral /\ [][Next]_vars

\* the Actor Universe page on the filmographies of UniverseFiles
InitUniverse ==
    /\ app = "modular"
    /\ csv \in UniverseFiles
    /\ csv_exists = TRUE
    /\ csv_columns = Columns
    /\ load_status = "none"
    /\ df_full = <<>>
    /\ pc = "start"
    /\ Idle

NextUniverse ==
    \/ Load
    \/ RenderActorUniverse
    \/ Rerun

SpecUniverse == InitUniverse /\ [][NextUniverse]_vars

\* the two loaders on files with and without each column, and on no file
InitSchema ==
    /\ app \in {"modular", "monolith"}
    /\ csv_exists \in BOOLEAN
    /\ csv_columns \in (IF csv_exists THEN SUBSET Columns ELSE {{}})
    /\ csv \in (IF csv_exists THEN SchemaFiles ELSE {<<>>})
    /\ load_status = "none"
    /\ df_full = <<>>
    /\ pc = "start"
    /\ Idle

NextSchema == Load

SpecSchema == InitSchema /\ [][NextSchema]_vars

--------------------------------------------------------------------------
(* Chart cards: components.render_chart_with_description and
   components.render_two_column_charts *)

\* one element put on the page: its kind, the footer column it is in (0
\* outside the footer) and the number of footer columns
Element(kind, col, of) == [kind |-> kind, col |-> col, of |-> of]

\* the interaction tips of the model; a configuration may also have none
Tips == {"", "Hover for film details", "Hover for exact counts"}

\* a chart configuration: what its 'chart' entry holds and, when the key is
\* there, its 'interaction_tip'
ChartConfigs ==
    {c \in [chart : {"chart", "None"}, has_tip : BOOLEAN,
            interaction_tip : Tips] :
        ~c.has_tip => c.interaction_tip = ""}

\* config.get('interaction_tip', ''), and the parameter's default
TipOf(config) ==
    IF config.has_tip THEN config.interaction_tip ELSE ""

\* the elements before the chart: wrapper, title and description
CardHead ==
    <<Element("wrapper", 0, 0), Element("title", 0, 0),
      Element("description", 0, 0)>>

\* col1, col2 = st.columns([3, 1]) if interaction_tip else
\* (st.columns([1]), None): without a tip col1 is the list st.columns
\* returns, and 'with col1:' raises on a list
Footer(interaction_tip) ==
    IF interaction_tip # ""
    THEN [status   |-> "ok",
          elements |-> <<Element("key_insight", 1, 2),
                         Element("interaction_tip", 2, 2)>>]
    ELSE [status |-> "error", elements |-> <<>>]

\* render_chart_with_description: st.altair_chart raises on None
render_chart_with_description(chart_element, interaction_tip) ==
    IF chart_element = "None"
    THEN [status |-> "error", elements |-> CardHead]
    ELSE LET foot == Footer(interaction_tip)
             body == CardHead \o <<Element("chart", 0, 0)>> \o foot.elements
         IN  IF foot.status = "error"
             THEN [status |-> "error", elements |-> body]
             ELSE [status   |-> "ok",
                   elements |-> Append(body, Element("wrapper_end", 0, 0))]

\* render_two_column_charts: the left card, then the right one
render_two_column_charts(left_chart_config, right_chart_config) ==
    LET left  == render_chart_with_description(left_chart_config.chart,
                                               TipOf(left_chart_config))
        right == render_chart_with_description(right_chart_config.chart,
                                               TipOf(right_chart_config))
    IN  IF left.status = "error" THEN left
        ELSE [status   |-> right.status,
              elements |-> left.elements \o right.elements]

\* a call of one of the two renderers: one configuration for
\* render_chart_with_description, two for render_two_column_charts
InitCard ==
    /\ app = "modular"
    /\ csv = <<>>
    /\ csv_exists = TRUE
    /\ csv_columns = Columns
    /\ load_status = "ok"
    /\ df_full = <<>>
    /\ IdlePage
    /\ card = NoCard
    /\ card_config \in {<<c>> : c \in ChartConfigs}
                       \cup {<<l, r>> : l \in ChartConfigs, r \in ChartConfigs}
    /\ pc = "card"

RenderChartWithDescription ==
    /\ pc = "card"
    /\ Len(card_config) = 1
    /\ card' = render_chart_with_description(card_config[1].chart,
                                             TipOf(card_config[1]))
    /\ pc' = "done"
    /\ UNCHANGED <<app, card_config, csv, csv_exists, csv_columns,
                   load_status, df_full, data_focus, df_current,
                   actor_list_options, selected_actors, selected_years,
                   df_filtered, actor_ratings, chart_name, chart_data,
                   chart_status, kpis, page_status>>

RenderTwoColumnCharts ==
    /\ pc = "card"
    /\ Len(card_config) = 2
    /\ card' = render_two_column_charts(card_config[1], card_config[2])
    /\ pc' = "done"
    /\ UNCHANGED <<app, card_config, csv, csv_exists, csv_columns,
                   load_status, df_full, data_focus, df_current,
                   actor_list_options, selected_actors, selected_years,
                   df_filtered, actor_ratings, chart_name, chart_data,
                   chart_status, kpis, page_status>>

NextCard ==
    \/ RenderChartWithDescription
    \/ RenderTwoColumnCharts

SpecCard == InitCard /\ [][NextCard]_vars

--------------------------------------------------------------------------
(* Properties *)

Loaded == load_status \in {"ok", "startup_error"}

Finite(x) == x.k = "num"

InTable(t, label) == \E j \in 1..Len(t) : t[j].idx = label

\* C1: every record of the table returned by data_loader's
\* load_and_preprocess_data has numVotes > 0 and runtimeMinutes > 0.
C1_VotesAndRuntimePositive ==
    (app = "modular" /\ Loaded) =>
        \A i \in 1..Len(df_full) :
            /\ Gt(df_full[i].numVotes, 0)
            /\ Gt(df_full[i].runtimeMinutes, 0)

\* a file with a row of zero or negative runtime was loaded and another row
\* is left
C1_Witness ==
    /\ app = "modular" /\ load_status = "ok" /\ df_full # <<>>
    /\ \E i \in 1..Len(csv) : ~Gt(csv[i].runtimeMinutes, 0)
                              /\ Finite(csv[i].runtimeMinutes)

\* C2: for every record of the cleaned table, decade is a multiple of 10 and
\* decade <= releaseYear <= decade + 9 (decade = floor(releaseYear / 10) * 10).
C2_DecadeIsFloorOfYear ==
    Loaded =>
        \A i \in 1..Len(df_full) :
            /\ df_full[i].decade % 10 = 0
            /\ df_full[i].decade <= df_full[i].releaseYear
            /\ df_full[i].releaseYear <= df_full[i].decade + 9

\* a record of a negative year and one whose year was truncated from 1999.5
C2_Witness ==
    /\ load_status = "ok"
    /\ \E i \in 1..Len(df_full) : df_full[i].releaseYear < 0
    /\ \E i \in 1..Len(df_full) :
          df_full[i].releaseYear = 1999 /\ df_full[i].decade = 1990

\* the text of a title cell holds marker at some position, letter case ignored
HasMarker(cell, marker) ==
    /\ cell.k = "str"
    /\ \E i \in 1..Len(cell.s) :
          /\ i + Len(marker) - 1 <= Len(cell.s)
          /\ \A j \in 1..Len(marker) :
                LowerChar(cell.s[i + j - 1]) = LowerChar(marker[j])

FranchiseMarkers == {<<"B","o","n","d">>, <<"0","0","7">>}

\* C3: for every record of the cleaned table, is_bond_core is true iff its
\* leadActor is one of the six EON_BOND_ACTORS or its primaryTitle or
\* originalTitle contains 'Bond' or '007', letter case ignored.
C3_BondCoreIffActorOrTitle ==
    Loaded =>
        \A i \in 1..Len(df_full) :
            df_full[i].is_bond_core <=>
                \/ df_full[i].leadActor \in
                      {"Sean Connery", "George Lazenby", "Roger Moore",
                       "Timothy Dalton", "Pierce Brosnan", "Daniel Craig"}
                \/ \E m \in FranchiseMarkers :
                      \/ HasMarker(df_full[i].primaryTitle, m)
                      \/ HasMarker(df_full[i].originalTitle, m)

\* a record that is core through a title in another letter case only, beside
\* a record that is not core
C3_Witness ==
    /\ load_status = "ok"
    /\ \E i \in 1..Len(df_full) :
          /\ df_full[i].is_bond_core
          /\ df_full[i].leadActor = "Tom Hanks"
          /\ df_full[i].primaryTitle = T_bOND
          /\ df_full[i].originalTitle = T_DrNo
    /\ \E i \in 1..Len(df_full) : ~df_full[i].is_bond_core

\* C4: for a non-empty selected actor set A and year range [lo, hi], the
\* filtered view is a table holding exactly the records of the focus subset
\* with leadActor in A and lo <= releaseYear <= hi, each once.
C4_FilterIsExactIntersection ==
    (pc \in {"page", "done"} /\ selected_actors # <<>>) =>
        /\ df_filtered.kind = "table"
        /\ \A i \in 1..Len(df_current) :
              (\E j \in 1..Len(df_filtered.rows) :
                    df_filtered.rows[j] = df_current[i])
              <=> /\ \E a \in 1..Len(selected_actors) :
                        selected_actors[a] = df_current[i].leadActor
                  /\ selected_years[1] <= df_current[i].releaseYear
                  /\ df_current[i].releaseYear <= selected_years[2]
        /\ \A j \in 1..Len(df_filtered.rows) :
              \E i \in 1..Len(df_current) : df_current[i] = df_filtered.rows[j]
        /\ \A j, k \in 1..Len(df_filtered.rows) :
              df_filtered.rows[j].idx = df_filtered.rows[k].idx => j = k

\* under the general focus, a view that keeps a record of the upper bound's
\* year and leaves out another record of the focus subset
C4_Witness ==
    /\ pc = "done"
    /\ data_focus = "general"
    /\ selected_actors # <<>>
    /\ \E j \in 1..Len(df_filtered.rows) :
          df_filtered.rows[j].releaseYear = selected_years[2]
    /\ Len(df_filtered.rows) < Len(df_current)

\* C5: aggregating an empty filtered set by actor yields an empty result
\* table and does not end in an error.
C5_EmptyViewAggregatesToEmpty ==
    (pc = "done" /\ df_filtered = Table(<<>>)) =>
        /\ chart_status = "ok"
        /\ Len(actor_ratings) = 0

\* the aggregation ran on the empty view of a table that has records
C5_Witness ==
    /\ pc = "done"
    /\ df_filtered = Table(<<>>)
    /\ df_full # <<>>
    /\ chart_status = "ok"

\* the cleaning steps that precede the vote floor keep row r of the file
SurvivesCleaning(r) ==
    /\ r.leadActor # NaActor
    /\ app = "modular" =>
          /\ Finite(r.averageRating)
          /\ Finite(r.numVotes) /\ r.numVotes.v > 0
          /\ Finite(r.runtimeMinutes) /\ r.runtimeMinutes.v > 0

\* C7: every record of the cleaned table has numVotes >= 500, and a row of
\* the file is in the cleaned table iff it survived the earlier cleaning
\* steps and has numVotes >= 500 (both loaders).
C7_VoteFloor ==
    Loaded =>
        /\ \A j \in 1..Len(df_full) :
              ~(df_full[j].numVotes.k \in {"nan", "ninf"})
              /\ (Finite(df_full[j].numVotes) => df_full[j].numVotes.v >= 500)
        /\ \A i \in 1..Len(csv) :
              InTable(df_full, i - 1) <=>
                  /\ SurvivesCleaning(csv[i])
                  /\ ~(csv[i].numVotes.k \in {"nan", "ninf"})
                  /\ (Finite(csv[i].numVotes) => csv[i].numVotes.v >= 500)

\* a row of 499 votes was dropped and a row of exactly 500 votes was kept
C7_Witness ==
    /\ load_status = "ok"
    /\ Len(csv) = 2 /\ Len(df_full) = 1
    /\ \E i \in 1..Len(csv) : csv[i].numVotes = Num(499)
    /\ df_full[1].numVotes = Num(500)

\* C8: no record of the cleaned table has a missing leadActor: every row of
\* the file whose leadActor is missing is removed.
C8_NoMissingLeadActor ==
    Loaded =>
        /\ \A j \in 1..Len(df_full) : df_full[j].leadActor # "NaN"
        /\ \A i \in 1..Len(csv) :
              csv[i].leadActor = "NaN" => ~InTable(df_full, i - 1)

\* a file with a row without leadActor was loaded and another row is left
C8_Witness ==
    /\ load_status = "ok" /\ df_full # <<>>
    /\ \E i \in 1..Len(csv) : csv[i].leadActor = "NaN"

\* averageRating, numVotes or runtimeMinutes of row r is missing or non-finite
BadNumeric(r) ==
    \/ ~Finite(r.averageRating)
    \/ ~Finite(r.numVotes)
    \/ ~Finite(r.runtimeMinutes)

\* C9: a row whose averageRating, numVotes or runtimeMinutes is missing or
\* non-finite never appears in the cleaned table, and it does not make the
\* load fail: a failed load has a row without such a value to blame, or a
\* title column that holds no text at all.
C9_NonFiniteDroppedWithoutFailure ==
    app = "modular" =>
        /\ Loaded =>
              /\ \A i \in 1..Len(csv) :
                    BadNumeric(csv[i]) => ~InTable(df_full, i - 1)
              /\ \A j \in 1..Len(df_full) : ~BadNumeric(df_full[j])
        /\ load_status = "error" =>
              \/ \E i \in 1..Len(csv) :
                    ~BadNumeric(csv[i]) /\ ~Finite(csv[i].releaseYear)
              \/ \E col \in {"primaryTitle", "originalTitle"} :
                    \A i \in 1..Len(csv) : csv[i][col].k # "str"

\* a row with a missing rating and a missing year was dropped, the load
\* succeeded and another row is left
C9_Witness ==
    /\ app = "modular" /\ load_status = "ok" /\ df_full # <<>>
    /\ \E i \in 1..Len(csv) :
          csv[i].averageRating = NaN /\ csv[i].releaseYear = NaN

\* C10: every record of the cleaned table has a numeric averageRating within
\* the IMDb scale 0..10; no row with an out-of-range rating survives loading.
C10_RatingWithinScale ==
    (app = "modular" /\ Loaded) =>
        \A j \in 1..Len(df_full) :
            /\ Finite(df_full[j].averageRating)
            /\ 0 <= df_full[j].averageRating.v
            /\ df_full[j].averageRating.v <= 10

\* every row of view is a row of t, with the same columns and values
RowsOf(view, t) ==
    \A j \in 1..Len(view.rows) : \E i \in 1..Len(t) : t[i] = view.rows[j]

\* C11: after loading, the cleaned table is never modified: no sidebar
\* filter, chart builder or page render changes df_full or the input file,
\* and the filtered view that a filter or a page leaves behind still holds
\* rows of the loaded table as they were loaded.
C11_LoadedTableNeverModified ==
    [][pc # "start" =>
          /\ df_full' = df_full
          /\ csv' = csv
          /\ RowsOf(df_filtered', df_full')]_vars

\* the timeline chart has added its rating_band column to its copy of a view
\* with records
C11_Witness ==
    /\ pc = "done"
    /\ chart_name = "Complete Film Timeline"
    /\ df_filtered.rows # <<>>
    /\ Len(chart_data.agg) = Len(df_filtered.rows)
    /\ \A i \in 1..Len(chart_data.agg) :
          "rating_band" \in DOMAIN chart_data.agg[i]

\* C12: when no actor is selected or the selection yields zero rows, the
\* page render (overview or individual chart) ends normally with the
\* placeholder message, and no chart table is computed.
C12_EmptySelectionShowsPlaceholder ==
    (/\ app = "modular"
     /\ pc = "done"
     /\ chart_name # "Story Mode"
     /\ \/ selected_actors = <<>>
        \/ df_filtered.kind = "None"
        \/ Len(df_filtered.rows) = 0) =>
        /\ page_status = "placeholder"
        /\ chart_status = "none"
        /\ actor_ratings = <<>>
        /\ chart_data.agg = <<>> /\ chart_data.bond = <<>>
        /\ chart_data.other = <<>>

\* an individual chart page was asked for with an actor selected and a year
\* range that holds none of that actor's films
C12_Witness ==
    /\ pc = "done"
    /\ chart_name = "Performance Heatmap"
    /\ selected_actors # <<>>
    /\ df_filtered = Table(<<>>)
    /\ df_current # <<>>
    /\ page_status = "placeholder"

NeededColumns ==
    {"leadActor", "releaseYear", "numVotes", "primaryTitle", "originalTitle"}

\* every releaseYear of the file is finite and each title column has a text
ConvertibleFile ==
    /\ \A i \in 1..Len(csv) : Finite(csv[i].releaseYear)
    /\ csv # <<>> =>
          /\ \E i \in 1..Len(csv) : csv[i].primaryTitle.k = "str"
          /\ \E i \in 1..Len(csv) : csv[i].originalTitle.k = "str"

RecordsOfActor(t, a) == Cardinality({i \in 1..Len(t) : t[i].leadActor = a})

RECURSIVE TotalFilms(_)
TotalFilms(agg) ==
    IF agg = <<>> THEN 0 ELSE Head(agg).totalFilms + TotalFilms(Tail(agg))

\* C14: the per-actor aggregation has exactly one row for each leadActor of
\* the filtered view and none for another actor; the row's totalFilms is the
\* number of that actor's records, its averageRating the mean of their
\* ratings, and the totalFilms sum to the number of rows of the view.
C14_OneRowPerActorWithRecordCount ==
    (pc = "done" /\ chart_status = "ok" /\ df_filtered.kind = "table") =>
        LET view == df_filtered.rows
        IN  /\ \A i \in 1..Len(view) :
                  \E j \in 1..Len(actor_ratings) :
                      actor_ratings[j].leadActor = view[i].leadActor
            /\ \A j, k \in 1..Len(actor_ratings) :
                  actor_ratings[j].leadActor = actor_ratings[k].leadActor
                      => j = k
            /\ \A j \in 1..Len(actor_ratings) :
                  LET a == actor_ratings[j].leadActor
                  IN  /\ RecordsOfActor(view, a) >= 1
                      /\ actor_ratings[j].totalFilms = RecordsOfActor(view, a)
                      /\ actor_ratings[j].averageRating.k = "num"
                      /\ actor_ratings[j].averageRating.n
                            = RecordsOfActor(view, a)
                      /\ actor_ratings[j].averageRating.s
                            = SumNum(OfActor(view, a), "averageRating")
            /\ TotalFilms(actor_ratings) = Len(view)

\* the number of records of decade d in table t that have genre g
FlagTotal(t, d, g) ==
    Cardinality({i \in 1..Len(t) : t[i].decade = d /\ t[i][g] = 1})

\* the records a genre aggregation was computed from: the target films of
\* the view (charts.py) or the view itself (bond_dashboard.py)
GenreRecords ==
    IF chart_name = "dashboard" THEN chart_data.records ELSE chart_data.bond

\* C15: in the genre-by-decade aggregation, a (decade, genre) pair is listed,
\* once, iff the sum of that genre's flag over the aggregated records of the
\* decade is > 0, and its Count is that sum.
C15_GenreCountIsFlagSum ==
    (/\ pc = "done"
     /\ chart_status = "ok"
     /\ chart_name \in {"Genre Evolution by Decade", "dashboard"}) =>
        LET agg == chart_data.agg
        IN  /\ \A i \in 1..Len(GenreRecords) :
                  \A g \in {"Action", "Adventure", "Thriller", "Romance",
                            "Sci-Fi", "Comedy", "Drama"} :
                      LET d == GenreRecords[i].decade
                      IN  FlagTotal(GenreRecords, d, g) > 0 <=>
                              \E j \in 1..Len(agg) :
                                  agg[j].decade = d /\ agg[j].Genre = g
            /\ \A j \in 1..Len(agg) :
                  /\ agg[j].Count > 0
                  /\ agg[j].Count
                        = FlagTotal(GenreRecords, agg[j].decade, agg[j].Genre)
            /\ \A j, k \in 1..Len(agg) :
                  (agg[j].decade = agg[k].decade /\ agg[j].Genre = agg[k].Genre)
                      => j = k

\* the genre chart of two target films of different decades: Adventure is
\* listed for the 2000s and not for the 1990s
C15_Witness ==
    /\ pc = "done"
    /\ chart_name = "Genre Evolution by Decade"
    /\ chart_status = "ok"
    /\ Len(chart_data.bond) = 2
    /\ \E j \in 1..Len(chart_data.agg) :
          chart_data.agg[j].decade = 2000 /\ chart_data.agg[j].Genre = "Adventure"
    /\ ~\E j \in 1..Len(chart_data.agg) :
          chart_data.agg[j].decade = 1990 /\ chart_data.agg[j].Genre = "Adventure"

\* the number of records of actor a and decade d in table t
RecordsOfPair(t, a, d) ==
    Cardinality({i \in 1..Len(t) : t[i].leadActor = a /\ t[i].decade = d})

\* C16: the heatmap aggregation has exactly one row for each (leadActor,
\* decade) pair of the filtered view and none for another pair; each row's
\* film_count is >= 1 and is the number of records of the pair.
C16_HeatmapOneRowPerPair ==
    (pc = "done" /\ chart_name = "Performance Heatmap"
                 /\ page_status = "rendered") =>
        LET view == df_filtered.rows
            agg  == chart_data.agg
        IN  /\ \A i \in 1..Len(view) :
                  \E j \in 1..Len(agg) :
                      /\ agg[j].leadActor = view[i].leadActor
                      /\ agg[j].decade = view[i].decade
            /\ \A j, k \in 1..Len(agg) :
                  (agg[j].leadActor = agg[k].leadActor
                   /\ agg[j].decade = agg[k].decade) => j = k
            /\ \A j \in 1..Len(agg) :
                  /\ agg[j].film_count >= 1
                  /\ agg[j].film_count
                        = RecordsOfPair(view, agg[j].leadActor, agg[j].decade)

\* C17: a row whose releaseYear is missing or non-finite is discarded by the
\* cleaning and the load succeeds, whatever the row's votes.
C17_BadYearRowDiscarded ==
    (/\ app = "modular"
     /\ pc # "start"
     /\ csv_exists /\ csv_columns = Columns
     /\ \A col \in TextCols : \E i \in 1..Len(csv) : csv[i][col].k = "str"
     /\ \E i \in 1..Len(csv) : ~Finite(csv[i].releaseYear)) =>
        /\ load_status = "ok"
        /\ \A i \in 1..Len(csv) :
              ~Finite(csv[i].releaseYear) => ~InTable(df_full, i - 1)

\* record r has the year of target and its keywords in primaryTitle
IsTargetFilm(r, target) ==
    /\ r.releaseYear = target.year
    /\ HasMarker(r.primaryTitle, target.title_keywords)

\* the target filter ran: chart_data.records is the table it was given,
\* chart_data.bond the table it returned
TargetFilterRan ==
    /\ pc = "done"
    /\ chart_name \in {"Story Mode", "Bond vs Other Thriller Films",
                       "Genre Evolution by Decade"}
    /\ page_status # "placeholder" \/ chart_name = "Story Mode"

Targets == {target_films[k] : k \in 1..Len(target_films)}

\* C18: filter_to_specific_bond_films returns at most 14 records of the
\* table it is given, all distinct and at most one for each target; each has
\* the year and, letter case ignored, the title keywords of a target; a
\* target without matching record contributes nothing, one with matching
\* records contributes one, and without any match the result is empty.
C18_AtMostOneRecordPerTarget ==
    TargetFilterRan =>
        LET given    == chart_data.records
            returned == chart_data.bond
        IN  /\ Len(returned) <= 14
            /\ Cardinality(Targets) = 14
            /\ Cardinality({tf.year : tf \in Targets}) = 14
            /\ \A j, k \in 1..Len(returned) :
                  returned[j].idx = returned[k].idx => j = k
            /\ \A j \in 1..Len(returned) :
                  /\ \E i \in 1..Len(given) : given[i] = returned[j]
                  /\ \E tf \in Targets : IsTargetFilm(returned[j], tf)
            /\ \A tf \in Targets :
                  LET hits == {j \in 1..Len(returned) :
                                  IsTargetFilm(returned[j], tf)}
                  IN  IF \E i \in 1..Len(given) : IsTargetFilm(given[i], tf)
                      THEN Cardinality(hits) = 1
                      ELSE hits = {}
            /\ (\A tf \in Targets : \A i \in 1..Len(given) :
                    ~IsTargetFilm(given[i], tf)) => returned = <<>>

\* Story Mode on a table of three records: two target films are returned and
\* the third record, a second match of one target, is left out
C18_Witness ==
    /\ pc = "done"
    /\ chart_name = "Story Mode"
    /\ Len(df_full) = 3
    /\ Len(chart_data.bond) = 2
    /\ \A i \in 1..Len(df_full) :
          \E tf \in Targets : IsTargetFilm(df_full[i], tf)

\* C19: for each target with matching records, the chosen record has the
\* target's leadActor whenever a matching record has it (the first such in
\* table order); otherwise it is the first matching record in table order.
C19_PrefersTargetActor ==
    TargetFilterRan =>
        LET given    == chart_data.records
            returned == chart_data.bond
        IN  \A tf \in Targets :
                LET M == {i \in 1..Len(given) : IsTargetFilm(given[i], tf)}
                    A == {i \in M : given[i].leadActor = tf.actor}
                IN  M # {} =>
                        \E j \in 1..Len(returned) :
                            /\ IsTargetFilm(returned[j], tf)
                            /\ A # {} => /\ returned[j].leadActor = tf.actor
                                         /\ returned[j] = given[MinOf(A)]
                            /\ A = {} => returned[j] = given[MinOf(M)]

\* two records match the 1995 target and the one of Pierce Brosnan, which is
\* not the first of them, was chosen
C19_Witness ==
    /\ TargetFilterRan
    /\ \E i, j \in 1..Len(chart_data.records) :
          /\ i < j
          /\ IsTargetFilm(chart_data.records[i], target_films[6])
          /\ IsTargetFilm(chart_data.records[j], target_films[6])
          /\ chart_data.records[i].leadActor # "Pierce Brosnan"
          /\ chart_data.records[j].leadActor = "Pierce Brosnan"
          /\ \E k \in 1..Len(chart_data.bond) :
                chart_data.bond[k] = chart_data.records[j]

\* C20: create_bond_comparison_chart puts every Thriller record of the loaded
\* table into exactly one of bond_films_data and other_films_data, and
\* nothing else into either.
C20_ThrillersSplitInTwo ==
    (pc = "done" /\ chart_name = "Bond vs Other Thriller Films"
                 /\ page_status = "rendered") =>
        LET bond  == chart_data.bond
            other == chart_data.other
        IN  /\ \A i \in 1..Len(df_full) :
                  IF df_full[i].Thriller = 1
                  THEN InTable(bond, df_full[i].idx)
                           # InTable(other, df_full[i].idx)
                  ELSE /\ ~InTable(bond, df_full[i].idx)
                       /\ ~InTable(other, df_full[i].idx)
            /\ \A j \in 1..Len(bond) :
                  \E i \in 1..Len(df_full) : df_full[i] = bond[j]
            /\ \A j \in 1..Len(other) :
                  \E i \in 1..Len(df_full) : df_full[i] = other[j]
            /\ \A j, k \in 1..Len(bond) : bond[j].idx = bond[k].idx => j = k
            /\ \A j, k \in 1..Len(other) : other[j].idx = other[k].idx => j = k

\* a table with a target film, another thriller and a film that is no
\* thriller was split
C20_Witness ==
    /\ pc = "done"
    /\ chart_name = "Bond vs Other Thriller Films"
    /\ chart_data.bond # <<>>
    /\ chart_data.other # <<>>
    /\ \E i \in 1..Len(df_full) : df_full[i].Thriller = 0


\* the four charts of pages/individual_charts.py built from the target films
TargetFilmCharts ==
    {"Runtime vs Rating Analysis", "Genre Evolution by Decade",
     "Genre Popularity Trend", "Production Volume by Decade"}

\* the view is a table with records, none of them one of the target films
NoTargetFilmInView ==
    /\ df_filtered.kind = "table"
    /\ df_filtered.rows # <<>>
    /\ \A i \in 1..Len(df_filtered.rows) : \A target \in Targets :
          ~IsTargetFilm(df_filtered.rows[i], target)

\* C21: when the filtered view has records but none of the 14 target films,
\* the runtime, genre evolution, genre trend and production volume charts
\* return no chart and the page render (individual chart or overview) ends
\* normally, without failing.
C21_NoTargetFilmEndsNormally ==
    (/\ app = "modular"
     /\ pc = "done"
     /\ chart_name \in TargetFilmCharts \cup {"none"}
     /\ NoTargetFilmInView) =>
        /\ page_status # "error"
        /\ chart_name \in TargetFilmCharts => chart_status = "None"


\* C22: render_chart_with_description completes normally with an interaction
\* tip and without one (empty string or left out): every card of a call
\* whose charts are charts is rendered to its end, and its key insight is
\* shown, in a single footer column when there is no tip.
C22_CardCompletesWithOrWithoutTip ==
    (/\ pc = "done"
     /\ card_config # <<>>
     /\ \A i \in 1..Len(card_config) : card_config[i].chart = "chart") =>
        /\ card.status = "ok"
        /\ Cardinality({j \in 1..Len(card.elements) :
                           card.elements[j].kind = "key_insight"})
              = Len(card_config)
        /\ \A i \in 1..Len(card_config) :
              TipOf(card_config[i]) = "" =>
                 \E j \in 1..Len(card.elements) :
                    card.elements[j] = Element("key_insight", 1, 1)


\* C23: on the Actor Universe page, an actor without a record in the loaded
\* table gets the warning and no statistic is computed; otherwise bond_count
\* + other_count is the number of the actor's records and the ranking lists
\* the min(15, n) highest-rated of them, best first.
C23_ActorUniverseCountsAndRanking ==
    (pc = "done" /\ chart_name = "Actor Universe") =>
        LET a   == selected_actors[1]
            n   == Cardinality({i \in 1..Len(df_full) :
                                   df_full[i].leadActor = a})
            top == chart_data.agg
        IN  IF n = 0
            THEN /\ page_status = "placeholder"
                 /\ kpis = NoKpis
                 /\ chart_data = NoChart
            ELSE /\ page_status = "rendered"
                 /\ kpis.bond_count + kpis.other_count = n
                 /\ Len(top) = IF n < 15 THEN n ELSE 15
                 /\ \A j \in 1..Len(top) :
                       /\ top[j].leadActor = a
                       /\ \E i \in 1..Len(df_full) : df_full[i] = top[j]
                 /\ \A j, k \in 1..Len(top) :
                       top[j].idx = top[k].idx => j = k
                 /\ \A j, k \in 1..Len(top) :
                       j < k => top[j].averageRating.v >= top[k].averageRating.v
                 /\ \A i \in 1..Len(df_full) :
                       (df_full[i].leadActor = a
                        /\ ~InTable(top, df_full[i].idx)) =>
                          \A j \in 1..Len(top) :
                             df_full[i].averageRating.v
                                <= top[j].averageRating.v

\* an actor of sixteen films was ranked: one film is left out of the ranking
C23_Witness ==
    /\ pc = "done"
    /\ chart_name = "Actor Universe"
    /\ page_status = "rendered"
    /\ Len(chart_data.records) = 16
    /\ Len(chart_data.agg) = 15


\* C24: in the monolithic dashboard, when no actor is selected or the focus
\* subset is empty, the filtered view is an empty table (not None), the
\* error message is shown, the KPI cards show 0 films, 0 rating, 0 runtime,
\* 0 votes and the title 'N/A' (with the dots every title card ends in),
\* and no chart aggregation is computed.
C24_MonolithEmptySelectionShowsZeroCards ==
    (/\ app = "monolith"
     /\ pc = "done"
     /\ selected_actors = <<>> \/ df_current = <<>>) =>
        /\ df_filtered = Table(<<>>)
        /\ page_status = "placeholder"
        /\ kpis = [shown |-> TRUE, total_films |-> 0,
                   avg_rating |-> [k |-> "num", s |-> 0, n |-> 1],
                   avg_runtime |-> [k |-> "num", s |-> 0, n |-> 1],
                   total_votes |-> Num(0),
                   most_popular |-> Str(<<"N", "/", "A", ".", ".", ".">>)]
        /\ actor_ratings = <<>>
        /\ chart_data = NoChart
        /\ chart_status = "none"

\* the dashboard was rendered on a table with films of a listed actor, with
\* no actor checked
C24_Witness ==
    /\ app = "monolith"
    /\ pc = "done"
    /\ selected_actors = <<>>
    /\ actor_list_options # <<>>
    /\ kpis.shown


\* the sidebar of a page or of the monolithic dashboard has produced a view
SidebarRan ==
    /\ pc \in {"page", "done"}
    /\ chart_name \notin {"Story Mode", "Actor Universe"}

\* C25: under the core focus, every record of the filtered view has
\* is_bond_core true and a leadActor of EON_BOND_ACTORS, whatever is checked
\* and whatever the slider says; a record that is core through its title
\* only is never in the view.
C25_CoreViewHasOnlyListedActors ==
    (SidebarRan /\ data_focus = "core") =>
        /\ \A j \in 1..Len(df_filtered.rows) :
              /\ df_filtered.rows[j].is_bond_core
              /\ df_filtered.rows[j].leadActor \in EON_BOND_ACTORS
        /\ \A i \in 1..Len(df_full) :
              (df_full[i].is_bond_core
               /\ df_full[i].leadActor \notin EON_BOND_ACTORS) =>
                  ~InTable(df_filtered.rows, df_full[i].idx)

\* the loaded table has a record that is core through its title only, and
\* the view under the core focus has records
C25_Witness ==
    /\ SidebarRan
    /\ data_focus = "core"
    /\ df_filtered.rows # <<>>
    /\ \E i \in 1..Len(df_full) :
          /\ df_full[i].is_bond_core
          /\ df_full[i].leadActor \notin EON_BOND_ACTORS


\* C26: under the general focus an actor is offered for selection iff the
\* actor has at least 5 records in the loaded table; the vote condition
\* (sum >= 1000) holds for every such actor, because each loaded record has
\* at least 500 votes.
C26_GeneralFocusOffersActorsOfFiveFilms ==
    (SidebarRan /\ data_focus = "general") =>
        /\ \A i \in 1..Len(df_full) : Ge(df_full[i].numVotes, 500)
        /\ \A a \in Range(actor_list_options) : a \in Actors(df_full)
        /\ \A a \in Actors(df_full) :
              /\ a \in Range(actor_list_options)
                    <=> RecordsOfActor(df_full, a) >= 5
              /\ RecordsOfActor(df_full, a) >= 5 =>
                    Ge(SumCell(OfActor(df_full, a), "numVotes"), 1000)

\* under the general focus one actor of the table is offered and another,
\* of fewer films, is not
C26_Witness ==
    /\ SidebarRan
    /\ data_focus = "general"
    /\ actor_list_options # <<>>
    /\ \E a \in Actors(df_full) : a \notin Range(actor_list_options)


\* record r without its index label
WithoutIndex(r) == [c \in (DOMAIN r) \ {"idx"} |-> r[c]]

\* the number of rows of t that are record x, index labels apart
Copies(t, x) == Cardinality({j \in 1..Len(t) : WithoutIndex(t[j]) = x})

\* every target film that has a matching record in the loaded table has one
\* whose leadActor is the target's actor
TargetActorsPresent ==
    \A target \in Targets :
       (\E i \in 1..Len(df_full) : IsTargetFilm(df_full[i], target)) =>
          \E i \in 1..Len(df_full) :
             /\ IsTargetFilm(df_full[i], target)
             /\ df_full[i].leadActor = target.actor

\* C27: on a loaded table in which every matched target film has a matching
\* record of the target's actor, filter_to_specific_bond_films(df_full) and
\* the selection inside create_bond_films_rating_chart(df_full) pick the
\* same records: Story Mode's films and its Chapter 1 chart are the same.
C27_StoryFilmsAreTheChartFilms ==
    (/\ pc = "done"
     /\ chart_name = "Story Mode"
     /\ page_status = "rendered"
     /\ TargetActorsPresent) =>
        /\ chart_status = "ok"
        /\ Len(chart_data.agg) = Len(chart_data.bond)
        /\ \A j \in 1..Len(chart_data.bond) :
              LET x == WithoutIndex(chart_data.bond[j])
              IN  Copies(chart_data.agg, x) = Copies(chart_data.bond, x)

\* Story Mode on a table where a target film is matched by a record of its
\* own actor and by a record that is not core
C27_Witness ==
    /\ pc = "done"
    /\ chart_name = "Story Mode"
    /\ page_status = "rendered"
    /\ TargetActorsPresent
    /\ \E i \in 1..Len(df_full) : \E target \in Targets :
          /\ IsTargetFilm(df_full[i], target)
          /\ ~df_full[i].is_bond_core


\* C28: on every input file on which both load_and_preprocess_data
\* implementations succeed they return the same cleaned table, and every
\* record of it has runtimeMinutes > 0 and a finite rating, whichever
\* program loaded it.
C28_BothLoadersReturnSameCleanTable ==
    (/\ pc # "start"
     /\ load_and_preprocess_data(CsvFile).status = "ok"
     /\ load_and_preprocess_data_monolith(CsvFile).status = "ok") =>
        /\ df_full = load_and_preprocess_data(CsvFile).rows
        /\ df_full = load_and_preprocess_data_monolith(CsvFile).rows
        /\ \A i \in 1..Len(df_full) :
              /\ Gt(df_full[i].runtimeMinutes, 0)
              /\ Finite(df_full[i].averageRating)


\* every row of table t is a row of table u
SubsetOf(t, u) ==
    \A j \in 1..Len(t) : \E i \in 1..Len(u) : u[i] = t[j]

\* the rows of the view of the program at hand for the actors in A and the
\* years lo..hi, on the focus subset of the state
ViewRowsFor(A, lo, hi) ==
    LET actors == SelectSeq(actor_list_options, LAMBDA a : a \in A)
    IN  IF app = "modular"
        THEN FilteredView(df_current, actors, <<lo, hi>>).rows
        ELSE FilteredViewMonolith(df_current, actors, <<lo, hi>>).rows

\* C29: the filtered view is a subset of the focus subset, which is a subset
\* of the loaded table; and every view of fewer selected actors or of a
\* narrower year range is a subset of the view: enlarging the actor set or
\* widening the range never removes a record.
C29_FilterContainedAndMonotone ==
    SidebarRan =>
        /\ SubsetOf(df_filtered.rows, df_current)
        /\ SubsetOf(df_current, df_full)
        /\ \A A \in SUBSET Range(selected_actors) :
              \A lo, hi \in SliderStops :
                 (selected_years[1] <= lo /\ hi <= selected_years[2]) =>
                    SubsetOf(ViewRowsFor(A, lo, hi), df_filtered.rows)

\* two actors are selected and the year range is narrowed: the view has
\* records and the focus subset has more
C29_Witness ==
    /\ SidebarRan
    /\ Len(selected_actors) >= 2
    /\ selected_years[1] > MinOf(Years(df_current))
    /\ df_filtered.rows # <<>>
    /\ Len(df_filtered.rows) < Len(df_current)

==========================================================================
